---- MODULE Spec2Model ----
(***************************************************************************)
(* A model of the Effect composition core of nerd-toolkit                  *)
(* (packages/effect-chain/src/effect.ts) on top of the JavaScript job      *)
(* model it runs on: promises with reaction lists, a FIFO microtask queue  *)
(* and timers that fire only when the microtask queue is empty.            *)
(*                                                                         *)
(* Every value is a tagged tuple whose first element names its shape:      *)
(*   <<"undefined">>  <<"none">>  <<"atom", n>>  <<"error", n>>            *)
(*   <<"list", <<v1, ..., vk>>>>  <<"handle", map, key>>  <<"map", map>>   *)
(*   <<"promise", id>>  <<"effect", id>>                                   *)
(*                                                                         *)
(* Beside it: the default dependency map (getDefaultDep.ts), the in-memory *)
(* cache of createTestDep, and the state-store package: the store, its     *)
(* builder and the singleton helper.                                       *)
(***************************************************************************)
EXTENDS Integers, Sequences, FiniteSets, TLC

VARIABLES
  effects,     \* the Effect objects built so far: each is its _internalRun closure
  promises,    \* the promises created so far
  microtasks,  \* the FIFO queue of promise jobs
  timers,      \* the pending timer callbacks of slow steps
  maps,        \* the dependency maps the caller owns
  log,         \* history: every callback invocation, start and settlement, in order
  runs,        \* the top-level run calls made so far and what each returned
  script,      \* the caller's program: the calls it makes on the library
  pc,          \* the next call of the script
  env,         \* what each executed call of the script returned
  defaultDependencies,  \* getDefaultDep.ts: the module-level default map, or null
  clients,     \* the database and cache clients created so far and their connections
  depCalls,    \* the calls of getDefaultDep made so far: where each stands, and its result
  state,       \* state-store: the `state` of createStoreInternal
  listeners,   \* the `listeners` Set, in insertion order
  selections,  \* the closures subscribeState registered: selector, listener, lastValue
  computed,    \* the `computed` object of the store
  config,      \* the StoreConfig the store was built from
  notes,       \* history: the calls made on the store and the listeners invoked, in order
  builders,    \* state-store: the StoreConfigBuilder objects made so far, each its config
  heap,        \* the state objects allocated so far; a state is held by reference
  stores,      \* the stores built so far: each the closure of createStoreInternal
  trail,       \* history: the calls made on the built stores and what they did
  isClient,    \* utils/env.ts: typeof window !== 'undefined'
  instances,   \* SINGLETON_INSTANCES_HELPER: the Map of the helper, or null
  made,        \* history: the calls of the singleton helper and the instances created
  store,       \* createMockRedis: the Map `store` of the test cache
  now,         \* Date.now(), in half seconds
  replies      \* history: the calls made on the test cache and what each returned

effectVars == <<effects, promises, microtasks, timers, maps, log, runs, script, pc, env>>
depVars == <<defaultDependencies, clients, depCalls>>
storeVars == <<state, listeners, selections, computed, config, notes>>
builderVars == <<builders, heap, stores, trail>>
singletonVars == <<isClient, instances, made>>
cacheVars == <<store, now, replies>>
restVars == <<builderVars, singletonVars, cacheVars>>
vars == <<effectVars, depVars, storeVars, restVars>>

----------------------------------------------------------------------------
(* Values *)

Undefined == <<"undefined">>
None == <<"none">>
Atom(n) == <<"atom", n>>
Err(n) == <<"error", n>>
List(s) == <<"list", s>>
Handle(m, k) == <<"handle", m, k>>
MapRef(m) == <<"map", m>>
PromiseRef(p) == <<"promise", p>>
EffectRef(e) == <<"effect", e>>

IsPromise(v) == v[1] = "promise"
NumOf(v) == IF v[1] = "atom" THEN v[2] ELSE 0

\* What a call returns: a value, or a synchronous throw, and the state it leaves.
Returned(st, v) == [st |-> st, threw |-> FALSE, val |-> v]
Thrown(st, e) == [st |-> st, threw |-> TRUE, val |-> e]

State == [effects |-> effects, promises |-> promises, microtasks |-> microtasks,
          timers |-> timers, maps |-> maps, log |-> log]

\* No operation of the Effect core touches the default map or a store.
Commit(st) ==
  /\ effects' = st.effects
  /\ promises' = st.promises
  /\ microtasks' = st.microtasks
  /\ timers' = st.timers
  /\ maps' = st.maps
  /\ log' = st.log
  /\ UNCHANGED <<depVars, storeVars, restVars>>

Logged(st, ev) == [st EXCEPT !.log = Append(@, ev)]

----------------------------------------------------------------------------
(* Promises and jobs (ECMAScript 27.2) *)

PendingPromise ==
  [state |-> "pending", value |-> Undefined, locked |-> FALSE,
   reactions |-> <<>>, elems |-> <<>>, remaining |-> 0, handled |-> FALSE]

AllocPromise(st) == [st EXCEPT !.promises = Append(@, PendingPromise)]

Enqueue(st, job) == [st EXCEPT !.microtasks = Append(@, job)]

\* FulfillPromise / RejectPromise: the promise settles and one job per
\* registered reaction is queued, in registration order.
Settle(st, p, how, v) ==
  LET rs == st.promises[p].reactions
      jobs == [i \in 1..Len(rs) |-> <<"react", rs[i], how, v>>]
  IN [st EXCEPT !.promises[p].state = how,
                !.promises[p].value = v,
                !.promises[p].locked = TRUE,
                !.promises[p].reactions = <<>>,
                !.microtasks = @ \o jobs,
                !.log = Append(@, <<"settle", p, how, v>>)]

\* The resolve function of a promise capability: a second call does nothing;
\* resolving with a promise queues NewPromiseResolveThenableJob.
ResolvePromise(st, p, v) ==
  IF st.promises[p].locked THEN st
  ELSE IF IsPromise(v)
       THEN Enqueue([st EXCEPT !.promises[p].locked = TRUE], <<"thenable", p, v[2]>>)
       ELSE Settle(st, p, "fulfilled", v)

\* The reject function of a promise capability.
RejectPromise(st, p, e) ==
  IF st.promises[p].locked THEN st ELSE Settle(st, p, "rejected", e)

\* PerformPromiseThen: register the reaction, or queue its job at once when
\* the promise is already settled; the promise is handled from then on
\* ([[PromiseIsHandled]]).
PerformThen(st, p, reaction) ==
  LET s1 == [st EXCEPT !.promises[p].handled = TRUE]
  IN IF st.promises[p].state = "pending"
     THEN [s1 EXCEPT !.promises[p].reactions = Append(@, reaction)]
     ELSE Enqueue(s1, <<"react", reaction, st.promises[p].state, st.promises[p].value>>)

\* await v inside an async function: a promise is awaited directly, any
\* other value resumes the function one job later.
Await(st, v, frame) ==
  IF IsPromise(v)
  THEN PerformThen(st, v[2], <<"await", frame>>)
  ELSE Enqueue(st, <<"react", <<"await", frame>>, "fulfilled", v>>)

----------------------------------------------------------------------------
(* The caller's callbacks.  A step function is <<behaviour, n>>: what the  *)
(* function does when invoked and the number it answers with.  Transform   *)
(* functions and chain continuations are small named functions.            *)

StepBehaviours == {"ok", "fail", "throw", "slow", "slowfail"}

\* fn(arg) for a step function of the caller: an async function that
\* returns ("ok") or throws ("fail"), a plain function that throws before
\* it returns a promise ("throw") or returns a value that is no promise
\* ("plain"), or one whose promise a timer settles.  The step <<"async", fn>>
\* is the wrapper `async logger => fn(logger)` of withLogger: it is no
\* function of the caller and goes unrecorded; it calls fn on behalf of
\* the closure that called it and answers with a promise of its own.
RECURSIVE CallStep(_, _, _, _)
CallStep(st, step, arg, ctx) ==
  LET beh == step[1]
      n == step[2]
      s1 == Logged(st, <<"step", ctx[1], ctx[2], beh, n, arg>>)
      s2 == AllocPromise(s1)
      q == Len(s2.promises)
      w == AllocPromise(st)
      W == Len(w.promises)
      c == CallStep(w, step[2], arg, ctx)
  IN CASE beh = "throw" -> Thrown(s1, Err(n))
       [] beh = "plain" -> Returned(s1, Atom(n))
       [] beh = "async" ->
            Returned(IF c.threw THEN RejectPromise(c.st, W, c.val)
                     ELSE ResolvePromise(c.st, W, c.val), PromiseRef(W))
       [] beh = "ok" -> Returned(Settle(s2, q, "fulfilled", Atom(n)), PromiseRef(q))
       [] beh = "fail" -> Returned(Settle(s2, q, "rejected", Err(n)), PromiseRef(q))
       [] beh = "slow" ->
            Returned([s2 EXCEPT !.timers = @ \cup {<<q, "fulfilled", Atom(n)>>}], PromiseRef(q))
       [] beh = "slowfail" ->
            Returned([s2 EXCEPT !.timers = @ \cup {<<q, "rejected", Err(n)>>}], PromiseRef(q))

\* fn(value) for a transform function of the caller.
RECURSIVE ApplyFn(_, _, _, _)
ApplyFn(st, fn, v, ctx) ==
  LET s1 == Logged(st, <<"fn", ctx[1], ctx[2], fn, v>>)
  IN CASE fn[1] = "id" -> Returned(s1, v)
       [] fn[1] = "inc" -> Returned(s1, Atom(NumOf(v) + 1))
       [] fn[1] = "double" -> Returned(s1, Atom(2 * NumOf(v)))
       [] fn[1] = "fthrow" -> Thrown(s1, Err(fn[2]))
       [] fn[1] = "compose" ->
            \* x => g(f(x)), f = fn[2], g = fn[3]
            LET c == ApplyFn(st, fn[2], v, ctx)
            IN IF c.threw THEN c ELSE ApplyFn(c.st, fn[3], c.val, ctx)

----------------------------------------------------------------------------
(* Effect: construction (effect.ts 6-28, 75-88).  An Effect object is its  *)
(* _internalRun closure, kept as the constructor's name and what the       *)
(* closure captured.  No constructor invokes anything.                     *)

\* private constructor(runFn) { this._internalRun = runFn }
NewEffect(st, closure) ==
  Returned([st EXCEPT !.effects = Append(@, closure)], EffectRef(Len(st.effects) + 1))

\* static pure(value): new Effect(async () => value)
Pure(st, value) == NewEffect(st, <<"pure", value>>)

\* A fromPromise that calls promiseFn when the Effect is built and keeps its promise.
FromPromiseEager(st, promiseFn) ==
  NewEffect(CallStep(st, promiseFn, None, <<0, 0>>).st, <<"fromPromise", promiseFn>>)

\* static fromPromise(promiseFn): new Effect(async () => promiseFn())
FromPromise(st, promiseFn) == NewEffect(st, <<"fromPromise", promiseFn>>)

\* static withSingleDep(depKey, fn): new Effect(async deps => fn(deps[depKey]))
WithSingleDep(st, depKey, fn) == NewEffect(st, <<"withSingleDep", depKey, fn>>)

\* static withDeps(fn): new Effect(fn)
WithDeps(st, fn) == NewEffect(st, <<"withDeps", fn>>)

\* static all(effects)
All(st, effs) == NewEffect(st, <<"all", effs>>)

\* static race(effects)
Race(st, effs) == NewEffect(st, <<"race", effs>>)

\* static sequence(effects)
Sequence(st, effs) == NewEffect(st, <<"sequence", effs>>)

\* A transform that rewrites the receiver: the receiver's closure moves to a
\* new object and the receiver itself becomes the transformed Effect.
TransformInPlace(st, self, fn) ==
  Returned([st EXCEPT !.effects =
              Append([@ EXCEPT ![self] = <<"transform", Len(st.effects) + 1, fn>>],
                     st.effects[self])],
           EffectRef(self))

\* transform(fn), called on Effect self
Transform(st, self, fn) == NewEffect(st, <<"transform", self, fn>>)

\* chain(fn), called on Effect self
Chain(st, self, fn) == NewEffect(st, <<"chain", self, fn>>)

\* creators.ts: the accessors of the four services, and withDeps
withDB(st, fn) == WithSingleDep(st, "db", fn)
withLogger(st, fn) == WithSingleDep(st, "logger", <<"async", fn>>)
\* A withCache that delegates with the key of the database.
withCacheByDBKey(st, fn) == WithSingleDep(st, "db", fn)
withCache(st, fn) == WithSingleDep(st, "cache", fn)
withHttp(st, fn) == WithSingleDep(st, "http", fn)
withDeps(st, fn) == WithDeps(st, fn)

\* fn(value) for a chain continuation of the caller; it answers with an
\* Effect it builds through the constructors above, or throws.
RECURSIVE CallCont(_, _, _, _)
CallCont(st, k, v, ctx) ==
  LET s1 == Logged(st, <<"cont", ctx[1], ctx[2], k, v>>)
  IN CASE k[1] = "kpure" -> Pure(s1, v)
       [] k[1] = "kinc" -> Pure(s1, Atom(NumOf(v) + k[2]))
       [] k[1] = "kfromPromise" -> FromPromise(s1, <<k[2], NumOf(v) + k[3]>>)
       [] k[1] = "kwithSingleDep" -> WithSingleDep(s1, k[2], <<k[3], NumOf(v) + k[4]>>)
       [] k[1] = "kwithDeps" -> WithDeps(s1, <<k[2], NumOf(v) + k[3]>>)
       [] k[1] = "kthrow" -> Thrown(s1, Err(k[2]))
       [] k[1] = "kcompose" ->
            \* x => f(x).chain(g)
            LET c == CallCont(s1, k[2], v, ctx)
            IN IF c.threw THEN c ELSE Chain(c.st, c.val[2], k[3])

----------------------------------------------------------------------------
(* Effect: execution (effect.ts 10-92).  InternalRun is the call of an     *)
(* Effect's _internalRun closure: it runs the closure up to its first      *)
(* await and answers with the closure's promise.  A frame is an async      *)
(* closure suspended at an await: <<kind, effect, deps, promise, rid, ...>>*)
(* ctx = <<rid, P>> names the top-level run and the promise of the closure *)
(* that makes a call; the history records both with every call.            *)

\* A lookup in the map of the first run instead of the map at hand.
LookupFirstMap(st, deps, depKey) ==
  IF depKey \in DOMAIN st.maps[1] THEN st.maps[1][depKey] ELSE Undefined

\* dependencies[depKey]
Lookup(st, deps, depKey) ==
  IF depKey \in DOMAIN st.maps[deps] THEN st.maps[deps][depKey] ELSE Undefined

RECURSIVE InternalRun(_, _, _, _)
RECURSIVE Run(_, _, _, _)
RECURSIVE StartMembers(_, _, _, _, _, _)
RECURSIVE SequenceLoop(_, _)

\* A pure that fails with a missing-dependency error against a map without entries.
PureRunNeedingMap(st, e, deps, ctx) ==
  LET s1 == AllocPromise(st)
      P == Len(s1.promises)
  IN Returned(IF DOMAIN st.maps[deps] = {} THEN RejectPromise(s1, P, Err(0))
              ELSE ResolvePromise(s1, P, st.effects[e][2]), PromiseRef(P))

\* async () => value
PureRun(st, e, deps, ctx) ==
  LET s1 == AllocPromise(st)
      P == Len(s1.promises)
  IN Returned(ResolvePromise(s1, P, st.effects[e][2]), PromiseRef(P))

\* A fromPromise that hands the factory the map of the run.
FromPromiseRunWithMap(st, e, deps, ctx) ==
  LET s1 == AllocPromise(st)
      P == Len(s1.promises)
      c == CallStep(s1, st.effects[e][2], MapRef(deps), <<ctx[1], P>>)
  IN Returned(IF c.threw THEN RejectPromise(c.st, P, c.val)
              ELSE ResolvePromise(c.st, P, c.val), PromiseRef(P))

\* async () => promiseFn()
FromPromiseRun(st, e, deps, ctx) ==
  LET s1 == AllocPromise(st)
      P == Len(s1.promises)
      c == CallStep(s1, st.effects[e][2], None, <<ctx[1], P>>)
  IN Returned(IF c.threw THEN RejectPromise(c.st, P, c.val)
              ELSE ResolvePromise(c.st, P, c.val), PromiseRef(P))

\* A withSingleDep that hands its step the whole map.
WithSingleDepRunWholeMap(st, e, deps, ctx) ==
  LET s1 == AllocPromise(st)
      P == Len(s1.promises)
      c == CallStep(s1, st.effects[e][3], MapRef(deps), <<ctx[1], P>>)
  IN Returned(IF c.threw THEN RejectPromise(c.st, P, c.val)
              ELSE ResolvePromise(c.st, P, c.val), PromiseRef(P))

\* A withSingleDep that fails with a missing-dependency error, without
\* invoking fn, when the map has no entry for depKey.
WithSingleDepRunValidating(st, e, deps, ctx) ==
  LET s1 == AllocPromise(st)
      P == Len(s1.promises)
      c == CallStep(s1, st.effects[e][3], Lookup(st, deps, st.effects[e][2]), <<ctx[1], P>>)
  IN Returned(IF st.effects[e][2] \notin DOMAIN st.maps[deps] THEN RejectPromise(s1, P, Err(0))
              ELSE IF c.threw THEN RejectPromise(c.st, P, c.val)
              ELSE ResolvePromise(c.st, P, c.val), PromiseRef(P))

\* A withSingleDep that takes the handle out of the map it is run against.
WithSingleDepRunConsuming(st, e, deps, ctx) ==
  LET s1 == AllocPromise(st)
      P == Len(s1.promises)
      c == CallStep(s1, st.effects[e][3], Lookup(st, deps, st.effects[e][2]), <<ctx[1], P>>)
      left == [c.st EXCEPT !.maps[deps] =
                 [k \in DOMAIN @ \ {st.effects[e][2]} |-> @[k]]]
  IN Returned(IF c.threw THEN RejectPromise(left, P, c.val)
              ELSE ResolvePromise(left, P, c.val), PromiseRef(P))

\* async (dependencies) => fn(dependencies[depKey])
WithSingleDepRun(st, e, deps, ctx) ==
  LET s1 == AllocPromise(st)
      P == Len(s1.promises)
      c == CallStep(s1, st.effects[e][3], Lookup(st, deps, st.effects[e][2]), <<ctx[1], P>>)
  IN Returned(IF c.threw THEN RejectPromise(c.st, P, c.val)
              ELSE ResolvePromise(c.st, P, c.val), PromiseRef(P))

\* fn itself is the closure: no async wrapper around it
WithDepsRun(st, e, deps, ctx) == CallStep(st, st.effects[e][2], MapRef(deps), ctx)

\* effects.map(eff => eff.run(dependencies)): the members are started in
\* list order; a member whose run throws ends the map.
StartMembers(st, effs, i, deps, ctx, acc) ==
  IF i > Len(effs) THEN Returned(st, acc)
  ELSE LET c == Run(st, effs[i], deps, ctx)
       IN IF c.threw THEN c
          ELSE StartMembers(c.st, effs, i + 1, deps, ctx, Append(acc, c.val))

\* Promise.all(promises)
PromiseAll(st, ps) ==
  LET s1 == AllocPromise(st)
      A == Len(s1.promises)
      s2 == [s1 EXCEPT !.promises[A].elems = [i \in 1..Len(ps) |-> Undefined],
                       !.promises[A].remaining = Len(ps)]
      RECURSIVE Register(_, _)
      Register(s, i) ==
        IF i > Len(ps) THEN s
        ELSE Register(IF IsPromise(ps[i])
                      THEN PerformThen(s, ps[i][2], <<"allElement", A, i>>)
                      ELSE Enqueue(s, <<"react", <<"allElement", A, i>>, "fulfilled", ps[i]>>),
                      i + 1)
  IN Returned(IF Len(ps) = 0 THEN ResolvePromise(s2, A, List(<<>>)) ELSE Register(s2, 1),
              PromiseRef(A))

\* A Promise.race that resolves at once when it is given no promise.
PromiseRaceOfNone(st, ps) ==
  LET s1 == AllocPromise(st)
      R == Len(s1.promises)
      RECURSIVE Register(_, _)
      Register(s, i) ==
        IF i > Len(ps) THEN s
        ELSE Register(IF IsPromise(ps[i])
                      THEN PerformThen(s, ps[i][2], <<"capability", R>>)
                      ELSE Enqueue(s, <<"react", <<"capability", R>>, "fulfilled", ps[i]>>),
                      i + 1)
  IN Returned(IF Len(ps) = 0 THEN ResolvePromise(s1, R, Undefined) ELSE Register(s1, 1),
              PromiseRef(R))

\* Promise.race(promises)
PromiseRace(st, ps) ==
  LET s1 == AllocPromise(st)
      R == Len(s1.promises)
      RECURSIVE Register(_, _)
      Register(s, i) ==
        IF i > Len(ps) THEN s
        ELSE Register(IF IsPromise(ps[i])
                      THEN PerformThen(s, ps[i][2], <<"capability", R>>)
                      ELSE Enqueue(s, <<"react", <<"capability", R>>, "fulfilled", ps[i]>>),
                      i + 1)
  IN Returned(Register(s1, 1), PromiseRef(R))

\* async (dependencies) => { promises = effects.map(...); await Promise.all(promises) ...
AllRun(st, e, deps, ctx) ==
  LET s1 == AllocPromise(st)
      P == Len(s1.promises)
      c == StartMembers(s1, st.effects[e][2], 1, deps, <<ctx[1], P>>, <<>>)
      a == PromiseAll(c.st, c.val)
  IN Returned(IF c.threw THEN RejectPromise(c.st, P, c.val)
              ELSE Await(a.st, a.val, <<"all", e, deps, P, ctx[1]>>), PromiseRef(P))

\* async (dependencies) => { promises = effects.map(...); await Promise.race(promises) ...
RaceRun(st, e, deps, ctx) ==
  LET s1 == AllocPromise(st)
      P == Len(s1.promises)
      c == StartMembers(s1, st.effects[e][2], 1, deps, <<ctx[1], P>>, <<>>)
      r == PromiseRace(c.st, c.val)
  IN Returned(IF c.threw THEN RejectPromise(c.st, P, c.val)
              ELSE Await(r.st, r.val, <<"race", e, deps, P, ctx[1]>>), PromiseRef(P))

\* for (const eff of effects) { const result = await eff.run(dependencies); ...
\* from member frame[6], with frame[7] the resultsArray so far
SequenceLoop(st, frame) ==
  LET effs == st.effects[frame[2]][2]
      P == frame[4]
      i == frame[6]
      c == Run(st, effs[i], frame[3], <<frame[5], P>>)
  IN IF i > Len(effs) THEN ResolvePromise(st, P, List(frame[7]))
     ELSE IF c.threw THEN RejectPromise(c.st, P, c.val)
     ELSE Await(c.st, c.val, frame)

\* A sequence that starts all its members at once and waits for them together.
SequenceRunTogether(st, e, deps, ctx) ==
  LET s1 == AllocPromise(st)
      P == Len(s1.promises)
      c == StartMembers(s1, st.effects[e][2], 1, deps, <<ctx[1], P>>, <<>>)
      a == PromiseAll(c.st, c.val)
  IN Returned(IF c.threw THEN RejectPromise(c.st, P, c.val)
              ELSE Await(a.st, a.val, <<"all", e, deps, P, ctx[1]>>), PromiseRef(P))

\* async (dependencies) => { const resultsArray = []; for ... }
SequenceRun(st, e, deps, ctx) ==
  LET s1 == AllocPromise(st)
      P == Len(s1.promises)
  IN Returned(SequenceLoop(s1, <<"sequence", e, deps, P, ctx[1], 1, <<>>>>), PromiseRef(P))

\* async dependencies => { const prevResult = await this._internalRun(dependencies); ...
TransformRun(st, e, deps, ctx) ==
  LET s1 == AllocPromise(st)
      P == Len(s1.promises)
      c == InternalRun(s1, st.effects[e][2], deps, <<ctx[1], P>>)
  IN Returned(IF c.threw THEN RejectPromise(c.st, P, c.val)
              ELSE Await(c.st, c.val, <<"transform", e, deps, P, ctx[1]>>), PromiseRef(P))

\* async (dependencies) => { const prevResult = await this._internalRun(dependencies); ...
ChainRun(st, e, deps, ctx) ==
  LET s1 == AllocPromise(st)
      P == Len(s1.promises)
      c == InternalRun(s1, st.effects[e][2], deps, <<ctx[1], P>>)
  IN Returned(IF c.threw THEN RejectPromise(c.st, P, c.val)
              ELSE Await(c.st, c.val, <<"chain", e, deps, P, ctx[1]>>), PromiseRef(P))

\* this._internalRun(dependencies)
\* The history records each call as
\* <<"start", rid, caller, effect, deps, promise, thrown>>, with promise 0 and
\* the thrown value when the call threw instead of answering with a promise.
InternalRun(st, e, deps, ctx) ==
  LET kind == st.effects[e][1]
      at == Len(st.log) + 1
      s1 == Logged(st, <<"start", ctx[1], ctx[2], e, deps, Len(st.promises) + 1, None>>)
      c == CASE kind = "pure" -> PureRun(s1, e, deps, ctx)
             [] kind = "fromPromise" -> FromPromiseRun(s1, e, deps, ctx)
             [] kind = "withSingleDep" -> WithSingleDepRun(s1, e, deps, ctx)
             [] kind = "withDeps" -> WithDepsRun(s1, e, deps, ctx)
             [] kind = "all" -> AllRun(s1, e, deps, ctx)
             [] kind = "race" -> RaceRun(s1, e, deps, ctx)
             [] kind = "sequence" -> SequenceRun(s1, e, deps, ctx)
             [] kind = "transform" -> TransformRun(s1, e, deps, ctx)
             [] kind = "chain" -> ChainRun(s1, e, deps, ctx)
  IN IF c.threw THEN [c EXCEPT !.st.log[at][6] = 0, !.st.log[at][7] = c.val] ELSE c

\* A run that answers with the promise of an earlier run of the same Effect.
RunMemoized(st, e, deps, ctx) ==
  LET earlier == {i \in DOMAIN st.log :
                    st.log[i][1] = "start" /\ st.log[i][4] = e /\ st.log[i][6] # 0}
  IN IF earlier # {}
     THEN Returned(st, PromiseRef(st.log[CHOOSE i \in earlier : TRUE][6]))
     ELSE InternalRun(st, e, deps, ctx)

\* run(dependencies) { return this._internalRun(dependencies) }
Run(st, e, deps, ctx) == InternalRun(st, e, deps, ctx)

----------------------------------------------------------------------------
(* Resumption of a suspended closure with the settlement of what it awaited *)

\* A transform that applies fn to whatever self settled with.
TransformResumeAlways(st, frame, how, v) ==
  LET P == frame[4]
      c == ApplyFn(st, st.effects[frame[2]][3], v, <<frame[5], P>>)
  IN IF c.threw THEN RejectPromise(c.st, P, c.val)
     ELSE ResolvePromise(c.st, P, c.val)

\* transform: return fn(prevResult)
TransformResume(st, frame, how, v) ==
  LET P == frame[4]
      c == ApplyFn(st, st.effects[frame[2]][3], v, <<frame[5], P>>)
  IN IF how = "rejected" THEN RejectPromise(st, P, v)
     ELSE IF c.threw THEN RejectPromise(c.st, P, c.val)
     ELSE ResolvePromise(c.st, P, c.val)

\* A chain that goes on with fn whatever self's settlement was.
ChainResumeAfterFailure(st, frame, how, v) ==
  LET P == frame[4]
      c == CallCont(st, st.effects[frame[2]][3], v, <<frame[5], P>>)
      r == Run(c.st, c.val[2], frame[3], <<frame[5], P>>)
  IN IF c.threw THEN RejectPromise(c.st, P, c.val)
     ELSE IF r.threw THEN RejectPromise(r.st, P, r.val)
     ELSE ResolvePromise(r.st, P, r.val)

\* A chain that runs the second Effect against the first map instead of its own.
ChainResumeOtherMap(st, frame, how, v) ==
  LET P == frame[4]
      c == CallCont(st, st.effects[frame[2]][3], v, <<frame[5], P>>)
      r == Run(c.st, c.val[2], 1, <<frame[5], P>>)
  IN IF how = "rejected" THEN RejectPromise(st, P, v)
     ELSE IF c.threw THEN RejectPromise(c.st, P, c.val)
     ELSE IF r.threw THEN RejectPromise(r.st, P, r.val)
     ELSE ResolvePromise(r.st, P, r.val)

\* A chain that answers with the Effect of its continuation without running it.
ChainResumeNotRun(st, frame, how, v) ==
  LET P == frame[4]
      c == CallCont(st, st.effects[frame[2]][3], v, <<frame[5], P>>)
  IN IF how = "rejected" THEN RejectPromise(st, P, v)
     ELSE IF c.threw THEN RejectPromise(c.st, P, c.val)
     ELSE ResolvePromise(c.st, P, c.val)

\* A chain that answers with undefined when its continuation throws.
ChainResumeSwallowing(st, frame, how, v) ==
  LET P == frame[4]
      c == CallCont(st, st.effects[frame[2]][3], v, <<frame[5], P>>)
      r == Run(c.st, c.val[2], frame[3], <<frame[5], P>>)
  IN IF how = "rejected" THEN RejectPromise(st, P, v)
     ELSE IF c.threw THEN ResolvePromise(c.st, P, Undefined)
     ELSE IF r.threw THEN RejectPromise(r.st, P, r.val)
     ELSE ResolvePromise(r.st, P, r.val)

\* chain: const nextEffectInstance = fn(prevResult); return nextEffectInstance.run(dependencies)
ChainResume(st, frame, how, v) ==
  LET P == frame[4]
      c == CallCont(st, st.effects[frame[2]][3], v, <<frame[5], P>>)
      r == Run(c.st, c.val[2], frame[3], <<frame[5], P>>)
  IN IF how = "rejected" THEN RejectPromise(st, P, v)
     ELSE IF c.threw THEN RejectPromise(c.st, P, c.val)
     ELSE IF r.threw THEN RejectPromise(r.st, P, r.val)
     ELSE ResolvePromise(r.st, P, r.val)

\* An all that rejects with an aggregate error wrapped around the member's.
AllResumeWrapping(st, frame, how, v) ==
  IF how = "rejected" THEN RejectPromise(st, frame[4], <<"wrapped", v>>)
  ELSE ResolvePromise(st, frame[4], v)

\* all: const results = await Promise.all(promises); return results
AllResume(st, frame, how, v) ==
  IF how = "rejected" THEN RejectPromise(st, frame[4], v)
  ELSE ResolvePromise(st, frame[4], v)

\* A race that, once it has its result, cancels the timers the members
\* still pending are waiting for.
RaceResumeCancelling(st, frame, how, v) ==
  LET s1 == [st EXCEPT !.timers = {}]
  IN IF how = "rejected" THEN RejectPromise(s1, frame[4], v)
     ELSE ResolvePromise(s1, frame[4], v)

\* race: const result = await Promise.race(promises); return result
RaceResume(st, frame, how, v) ==
  IF how = "rejected" THEN RejectPromise(st, frame[4], v)
  ELSE ResolvePromise(st, frame[4], v)

\* A sequence that goes on with the next member after a member failed.
SequenceResumeAfterFailure(st, frame, how, v) ==
  SequenceLoop(st, <<"sequence", frame[2], frame[3], frame[4], frame[5],
                     frame[6] + 1, Append(frame[7], v)>>)

\* sequence: resultsArray.push(result), then the next turn of the loop
SequenceResume(st, frame, how, v) ==
  IF how = "rejected" THEN RejectPromise(st, frame[4], v)
  ELSE SequenceLoop(st, <<"sequence", frame[2], frame[3], frame[4], frame[5],
                          frame[6] + 1, Append(frame[7], v)>>)

Resume(st, frame, how, v) ==
  CASE frame[1] = "transform" -> TransformResume(st, frame, how, v)
    [] frame[1] = "chain" -> ChainResume(st, frame, how, v)
    [] frame[1] = "all" -> AllResume(st, frame, how, v)
    [] frame[1] = "race" -> RaceResume(st, frame, how, v)
    [] frame[1] = "sequence" -> SequenceResume(st, frame, how, v)

\* A Promise.all that collects the values in the order of their arrival.
AllElementArrival(st, A, i, how, v) ==
  LET k == Len(st.promises[A].elems) - st.promises[A].remaining + 1
      s1 == [st EXCEPT !.promises[A].elems[k] = v, !.promises[A].remaining = @ - 1]
  IN IF how = "rejected" THEN RejectPromise(st, A, v)
     ELSE IF s1.promises[A].remaining = 0
          THEN ResolvePromise(s1, A, List(s1.promises[A].elems))
          ELSE s1

\* Promise.all's resolve element function
AllElement(st, A, i, how, v) ==
  LET s1 == [st EXCEPT !.promises[A].elems[i] = v, !.promises[A].remaining = @ - 1]
  IN IF how = "rejected" THEN RejectPromise(st, A, v)
     ELSE IF s1.promises[A].remaining = 0
          THEN ResolvePromise(s1, A, List(s1.promises[A].elems))
          ELSE s1

\* One promise job.
RunJob(st, job) ==
  IF job[1] = "thenable"
  THEN \* NewPromiseResolveThenableJob: thenable.then(resolve, reject) with fresh
       \* resolving functions of the promise job[2]
       PerformThen(st, job[3], <<"adopt", job[2]>>)
  ELSE LET reaction == job[2]
           how == job[3]
           v == job[4]
       IN CASE reaction[1] = "await" -> Resume(st, reaction[2], how, v)
            [] reaction[1] = "adopt" -> Settle(st, reaction[2], how, v)
            [] reaction[1] = "capability" ->
                 IF how = "rejected" THEN RejectPromise(st, reaction[2], v)
                 ELSE ResolvePromise(st, reaction[2], v)
            [] reaction[1] = "allElement" -> AllElement(st, reaction[2], reaction[3], how, v)

----------------------------------------------------------------------------
(* The dependency maps of the caller (types.ts: DependencyKey, DependencyMap) *)

DependencyKeys == {"db", "logger", "cache", "http"}

\* Map 1 holds all four services; map 2 is a partial map with a cache of its
\* own only; map 3 holds the cache of map 1 and a database of its own; map 4
\* is the empty map {} of the tests.
DepMaps ==
  << [k \in DependencyKeys |-> Handle(1, k)],
     [k \in {"cache"} |-> Handle(2, k)],
     [k \in {"cache", "db"} |-> IF k = "cache" THEN Handle(1, k) ELSE Handle(3, k)],
     [k \in {} |-> Undefined] >>

----------------------------------------------------------------------------
(* Actions: the calls of the caller's script, and the jobs of the event loop *)

AtCall(tag) == pc <= Len(script) /\ script[pc][1] = tag

\* The script goes on with the result of the call just made; it ends when
\* one of its own continuations throws.
Advance(c) ==
  /\ Commit(c.st)
  /\ env' = Append(env, c.val)
  /\ pc' = IF c.threw THEN Len(script) + 1 ELSE pc + 1
  /\ UNCHANGED <<runs, script>>

\* The Effect a script call names: the result of an earlier call.
Eff(i) == env[i][2]
Effs(is) == [j \in 1..Len(is) |-> env[is[j]][2]]

\* A value the script passes: a literal, or what an earlier call answered with.
Operand(v) == IF v[1] = "ref" THEN env[v[2]] ELSE v

CallPure == AtCall("pure") /\ Advance(Pure(State, Operand(script[pc][2])))

CallFromPromise == AtCall("fromPromise") /\ Advance(FromPromise(State, script[pc][2]))

CallWithSingleDep ==
  AtCall("withSingleDep") /\ Advance(WithSingleDep(State, script[pc][2], script[pc][3]))

CallWithDeps == AtCall("withDeps") /\ Advance(WithDeps(State, script[pc][2]))

CallAll == AtCall("all") /\ Advance(All(State, Effs(script[pc][2])))

CallRace == AtCall("race") /\ Advance(Race(State, Effs(script[pc][2])))

CallSequence == AtCall("sequence") /\ Advance(Sequence(State, Effs(script[pc][2])))

CallTransform ==
  AtCall("transform") /\ Advance(Transform(State, Eff(script[pc][2]), script[pc][3]))

CallChain == AtCall("chain") /\ Advance(Chain(State, Eff(script[pc][2]), script[pc][3]))

\* The caller applies one of its own continuations and keeps the Effect.
CallApply == AtCall("apply") /\ Advance(CallCont(State, script[pc][2], script[pc][3], <<0, 0>>))

\* effect.run(dependencies), the rid-th top-level run; the script catches
\* what run throws and goes on.
CallRun ==
  /\ AtCall("run")
  /\ LET rid == Len(runs) + 1
         c == Run(State, Eff(script[pc][2]), script[pc][3], <<rid, 0>>)
     IN /\ Commit(c.st)
        /\ runs' = Append(runs, [eff |-> Eff(script[pc][2]), deps |-> script[pc][3],
                                 threw |-> c.threw, val |-> c.val])
        /\ env' = Append(env, c.val)
        /\ pc' = pc + 1
        /\ UNCHANGED script

\* await of the promise an earlier run call answered with (or of nothing,
\* when that call threw): the script goes on once the promise is settled.
CallAwait ==
  /\ AtCall("await")
  /\ LET v == env[script[pc][2]]
     IN /\ IsPromise(v) => promises[v[2]].state # "pending"
        /\ env' = Append(env, IF IsPromise(v) THEN promises[v[2]].value ELSE v)
  /\ pc' = pc + 1
  /\ UNCHANGED <<effects, promises, microtasks, timers, maps, log, runs, script>>
  /\ UNCHANGED <<depVars, storeVars, restVars>>

\* The event loop runs the oldest promise job.
RunMicrotask ==
  /\ microtasks # <<>>
  /\ Commit(RunJob([State EXCEPT !.microtasks = Tail(@)], Head(microtasks)))
  /\ UNCHANGED <<runs, script, pc, env>>

\* A timer fires, only once no promise job is left, and settles the
\* promise of a slow step.
FireTimer ==
  /\ microtasks = <<>>
  /\ \E t \in timers :
       LET s1 == [State EXCEPT !.timers = @ \ {t}]
       IN Commit(IF t[2] = "rejected" THEN RejectPromise(s1, t[1], t[3])
                 ELSE ResolvePromise(s1, t[1], t[3]))
  /\ UNCHANGED <<runs, script, pc, env>>

Next ==
  \/ CallPure
  \/ CallFromPromise
  \/ CallWithSingleDep
  \/ CallWithDeps
  \/ CallAll
  \/ CallRace
  \/ CallSequence
  \/ CallTransform
  \/ CallChain
  \/ CallApply
  \/ CallRun
  \/ CallAwait
  \/ RunMicrotask
  \/ FireTimer

\* The calls of the accessors of creators.ts
CallWithDB == AtCall("withDB") /\ Advance(withDB(State, script[pc][2]))

CallWithLogger == AtCall("withLogger") /\ Advance(withLogger(State, script[pc][2]))

CallWithCache == AtCall("withCache") /\ Advance(withCache(State, script[pc][2]))

CallWithHttp == AtCall("withHttp") /\ Advance(withHttp(State, script[pc][2]))

CallCreatorsWithDeps == AtCall("creators.withDeps") /\ Advance(withDeps(State, script[pc][2]))

NextCreators ==
  \/ Next
  \/ CallWithDB
  \/ CallWithLogger
  \/ CallWithCache
  \/ CallWithHttp
  \/ CallCreatorsWithDeps

----------------------------------------------------------------------------
(* getDefaultDep.ts: the default dependency map.  A client is created by   *)
(* createPrismaClient / createRedisClient and connects on its own time; a   *)
(* call of getDefaultDep is at its await, has returned, or has failed.      *)

Null == <<"null">>

\* Object.freeze({db, logger: consoleLogger, cache, http: fetchHttpClient}):
\* a new object at every evaluation, here the one built by call c
FrozenMap(c, db, cache) == <<"frozen", c, db, cache>>

MaxCalls == 3

\* getDefaultDep(), up to its await: with the default map set it returns it;
\* otherwise it calls createPrismaClient() and createRedisClient(), each of
\* which creates a client and starts to connect, and awaits both.
GetDefaultDep ==
  /\ Len(depCalls) < MaxCalls
  /\ IF defaultDependencies # Null
     THEN /\ depCalls' = Append(depCalls, [at |-> "returned", db |-> 0, cache |-> 0,
                                           result |-> defaultDependencies])
          /\ UNCHANGED clients
     ELSE /\ clients' = clients \o <<[kind |-> "db", conn |-> "connecting"],
                                      [kind |-> "cache", conn |-> "connecting"]>>
          /\ depCalls' = Append(depCalls, [at |-> "await", db |-> Len(clients) + 1,
                                           cache |-> Len(clients) + 2, result |-> Null])
  /\ UNCHANGED <<defaultDependencies, effectVars, storeVars, restVars>>

\* prisma.$connect() / client.connect() of a client is done
Connected ==
  /\ \E i \in DOMAIN clients :
       /\ clients[i].conn = "connecting"
       /\ clients' = [clients EXCEPT ![i].conn = "connected"]
  /\ UNCHANGED <<defaultDependencies, depCalls, effectVars, storeVars, restVars>>

\* the connection of a client fails
ConnectFailed ==
  /\ \E i \in DOMAIN clients :
       /\ clients[i].conn = "connecting"
       /\ clients' = [clients EXCEPT ![i].conn = "failed"]
  /\ UNCHANGED <<defaultDependencies, depCalls, effectVars, storeVars, restVars>>

\* getDefaultDep() after its await: both clients are connected; the call
\* assigns a map frozen anew to defaultDependencies and returns the variable.
GetDefaultDepResume ==
  /\ \E c \in DOMAIN depCalls :
       /\ depCalls[c].at = "await"
       /\ clients[depCalls[c].db].conn = "connected"
       /\ clients[depCalls[c].cache].conn = "connected"
       /\ defaultDependencies' = FrozenMap(c, depCalls[c].db, depCalls[c].cache)
       /\ depCalls' = [depCalls EXCEPT ![c].at = "returned",
                                       ![c].result = defaultDependencies']
  /\ UNCHANGED <<clients, effectVars, storeVars, restVars>>

\* getDefaultDep() after its await, Promise.all rejected: the call fails
GetDefaultDepRejected ==
  /\ \E c \in DOMAIN depCalls :
       /\ depCalls[c].at = "await"
       /\ "failed" \in {clients[depCalls[c].db].conn, clients[depCalls[c].cache].conn}
       /\ depCalls' = [depCalls EXCEPT ![c].at = "failed"]
  /\ UNCHANGED <<defaultDependencies, clients, effectVars, storeVars, restVars>>

NextDefaultDep ==
  \/ GetDefaultDep
  \/ Connected
  \/ ConnectFailed
  \/ GetDefaultDepResume
  \/ GetDefaultDepRejected

\* the module is loaded: `let defaultDependencies = null`, nothing created
InitDefaultDep ==
  /\ defaultDependencies = Null
  /\ clients = <<>>
  /\ depCalls = <<>>

----------------------------------------------------------------------------
(* state-store: core/internal/StoreBuilder.ts.  The store of the tests     *)
(* holds {count, name}.  A partial state says for each key whether it is   *)
(* left out or put; selected and computed values carry their type.         *)

Keep == <<"keep">>
Put(v) == <<"put", v>>

\* { ...state, ...partial }
Merge(st, partial) ==
  [k \in DOMAIN st |-> IF partial[k] = Keep THEN st[k] ELSE partial[k][2]]

\* The selectors of the callers: state => state.count, state => state.name,
\* state => state.count % 2 === 0
Selectors == {"count", "name", "isEven"}

Select(selector, st) ==
  CASE selector = "count" -> <<"number", st.count>>
    [] selector = "name" -> <<"string", st.name>>
    [] selector = "isEven" -> <<"boolean", st.count % 2 = 0>>

\* The computed definitions of the callers: doubled: state => state.count * 2,
\* isEven: state => state.count % 2 === 0
ComputedDefs == {"doubled", "isEven"}

ComputedFn(name, st) ==
  CASE name = "doubled" -> <<"number", 2 * st.count>>
    [] name = "isEven" -> <<"boolean", st.count % 2 = 0>>

\* obj[name], undefined for a property the object does not have
GetProp(obj, name) == IF name \in DOMAIN obj THEN obj[name] ELSE Undefined

\* {}
EmptyObject == [name \in {} |-> Undefined]

\* A listener in the Set: a function of the caller, or the closure that
\* subscribeState made around a selector and a listener of the caller
Fn(i) == <<"fn", i>>
Sel(c) == <<"sel", c>>
ListenerFns == {1, 2}

\* listeners.add(listener): a Set holds a function once, in insertion order
Added(ls, l) == IF \E i \in DOMAIN ls : ls[i] = l THEN ls ELSE Append(ls, l)

\* A delete that leaves the Set as it is.
DeletedNever(ls, l) == ls

\* listeners.delete(listener)
Deleted(ls, l) ==
  LET Other(x) == x # l
  IN SelectSeq(ls, Other)

\* A subscribeState closure that never updates lastValue.
ObservedAtSubscription(sels, c, newValue) == sels

\* lastValue = newValue in the closure c of subscribeState
Observed(sels, c, newValue) == [sels EXCEPT ![c].lastValue = newValue]

\* listeners.forEach(listener => listener()) in the k-th _setState: a
\* function of the caller is invoked; a closure of subscribeState computes
\* selector(state) and invokes its listener with (newValue, oldValue) when
\* newValue !== lastValue
RECURSIVE Notify(_, _, _, _, _)
Notify(ls, st, sels, k, out) ==
  IF ls = <<>> THEN [selections |-> sels, notes |-> out]
  ELSE LET l == Head(ls)
           c == l[2]
           newValue == Select(sels[c].selector, st)
           oldValue == sels[c].lastValue
       IN IF l[1] = "fn"
          THEN Notify(Tail(ls), st, sels, k, Append(out, <<"listener", l, k>>))
          ELSE IF newValue # oldValue
          THEN Notify(Tail(ls), st, Observed(sels, c, newValue), k,
                      Append(out, <<"selected", c, k, newValue, oldValue>>))
          ELSE Notify(Tail(ls), st, sels, k, out)

\* The calls made on the store so far
StoreCallKinds == {"setState", "subscribe", "unsubscribe", "subscribeState"}
StoreCalls == {i \in DOMAIN notes : notes[i][1] \in StoreCallKinds}
SetStateCalls == {i \in DOMAIN notes : notes[i][1] = "setState"}

MaxStoreCalls == 4
MoreCalls == Cardinality(StoreCalls) < MaxStoreCalls

\* The partial states of the callers
Partials ==
  { [count |-> Keep, name |-> Keep], [count |-> Put(0), name |-> Keep],
    [count |-> Put(1), name |-> Keep], [count |-> Put(2), name |-> Keep],
    [count |-> Keep, name |-> Put("updated")], [count |-> Put(1), name |-> Put("updated")] }

\* store._setState(partial)
SetState ==
  /\ MoreCalls
  /\ \E partial \in Partials :
       LET next == Merge(state, partial)
           k == Cardinality(SetStateCalls) + 1
           n == Notify(listeners, next, selections, k,
                       Append(notes, <<"setState", k, partial, state, next>>))
       IN /\ state' = next
          /\ selections' = n.selections
          /\ notes' = n.notes
  /\ UNCHANGED <<listeners, computed, config, effectVars, depVars, restVars>>

\* store.subscribe(listener); the caller keeps the function it returns
Subscribe ==
  /\ MoreCalls
  /\ \E i \in ListenerFns :
       /\ listeners' = Added(listeners, Fn(i))
       /\ notes' = Append(notes, <<"subscribe", Fn(i)>>)
  /\ UNCHANGED <<state, selections, computed, config, effectVars, depVars, restVars>>

\* a function that subscribe or subscribeState returned is called
Unsubscribe ==
  /\ MoreCalls
  /\ \E j \in DOMAIN notes :
       /\ notes[j][1] \in {"subscribe", "subscribeState"}
       /\ listeners' = Deleted(listeners, notes[j][2])
       /\ notes' = Append(notes, <<"unsubscribe", notes[j][2]>>)
  /\ UNCHANGED <<state, selections, computed, config, effectVars, depVars, restVars>>

\* store.subscribeState(selector, listener)
SubscribeState ==
  /\ MoreCalls
  /\ \E selector \in Selectors :
       LET c == Len(selections) + 1
       IN /\ selections' = Append(selections, [selector |-> selector,
                                               lastValue |-> Select(selector, state)])
          /\ listeners' = Added(listeners, Sel(c))
          /\ notes' = Append(notes, <<"subscribeState", Sel(c), selector>>)
  /\ UNCHANGED <<state, computed, config, effectVars, depVars, restVars>>

NextStore ==
  \/ SetState
  \/ Subscribe
  \/ Unsubscribe
  \/ SubscribeState

----------------------------------------------------------------------------
(* state-store: the builder and the stores it builds.  A state object      *)
(* lives in the heap and is held by reference: every store built from one  *)
(* builder starts from the same initialState object.                       *)

\* A field of the config that no builder call has set; a field that holds
\* the definitions a builder call was given
Unset == <<"unset">>
Defs(names) == <<"defs", names>>
Names(field) == IF field = Unset THEN {} ELSE field[2]

\* The action definitions of the callers: increment: () => state =>
\* ({ count: state.count + 1 }), setCount: (newCount) => ({ count: newCount });
\* the partial state that def(args), or def(args)(state), gives
ActionDefs == {"increment", "setCount"}
ActionArgs == {2}

ActionPartial(name, arg, st) ==
  CASE name = "increment" -> [count |-> Put(st.count + 1), name |-> Keep]
    [] name = "setCount" -> [count |-> Put(arg), name |-> Keep]

\* The async action definitions of the callers
AsyncActionDefs == {"fetchUser"}

\* new StoreBuilder().initialState(initialState)
InitialBuilder(ref) ==
  [initialState |-> ref, computed |-> Unset, actions |-> Unset, asyncActions |-> Unset]

\* A builder call that sets the field of its own config and returns `this`.
ConfiguredInPlace(bs, b, field, defs) == [bs EXCEPT ![b][field] = defs]

\* new StoreConfigBuilder({ ...this.config, [field]: defs }): the builders
\* after the call on builder b, the last of them the one returned
Configured(bs, b, field, defs) == Append(bs, [bs[b] EXCEPT ![field] = defs])

\* createStoreInternal(config): the closure variables state and listeners,
\* and the computed, actions and asyncActions objects of the store; builder
\* is history: the builder whose build() made the call
CreateStoreInternal(cfg) ==
  [config |-> cfg, state |-> cfg.initialState, listeners |-> <<>>,
   computed |-> EmptyObject, actions |-> EmptyObject, asyncActions |-> EmptyObject,
   builder |-> 0]

\* A spread that also writes the merged values into the object it read.
SpreadInPlace(h, ref, partial) ==
  Append([h EXCEPT ![ref] = Merge(h[ref], partial)], Merge(h[ref], partial))

\* { ...state, ...partial }: a new object, the last of the heap
Spread(h, ref, partial) == Append(h, Merge(h[ref], partial))

\* store.getState() and the property getter of a key of initialState
getState(s) == heap[stores[s].state]
Getter(s, key) == heap[stores[s].state][key]

TrailCallKinds == {"setState", "subscribe", "action"}
TrailCalls == {i \in DOMAIN trail : trail[i][1] \in TrailCallKinds}
TrailSetStates == {i \in DOMAIN trail : trail[i][1] = "setState"}

\* The calls made so far on the builders and on the stores they built
MaxSteps == 6
Steps == (Len(builders) - 1) + Len(stores) + Cardinality(TrailCalls)
MoreSteps == Steps < MaxSteps

\* The partial states given to the built stores
StorePartials ==
  { [count |-> Keep, name |-> Keep], [count |-> Put(1), name |-> Keep],
    [count |-> Keep, name |-> Put("updated")] }

\* builder.computed(computedDefs)
BuilderComputed ==
  /\ MoreSteps
  /\ \E b \in DOMAIN builders :
       builders' = Configured(builders, b, "computed", Defs(ComputedDefs))
  /\ UNCHANGED <<heap, stores, trail, effectVars, depVars, storeVars, singletonVars, cacheVars>>

\* builder.actions(actionDefs)
BuilderActions ==
  /\ MoreSteps
  /\ \E b \in DOMAIN builders :
       builders' = Configured(builders, b, "actions", Defs(ActionDefs))
  /\ UNCHANGED <<heap, stores, trail, effectVars, depVars, storeVars, singletonVars, cacheVars>>

\* builder.asyncActions(asyncActionDefs)
BuilderAsyncActions ==
  /\ MoreSteps
  /\ \E b \in DOMAIN builders :
       builders' = Configured(builders, b, "asyncActions", Defs(AsyncActionDefs))
  /\ UNCHANGED <<heap, stores, trail, effectVars, depVars, storeVars, singletonVars, cacheVars>>

\* builder.build()
Build ==
  /\ MoreSteps
  /\ \E b \in DOMAIN builders :
       stores' = Append(stores, [CreateStoreInternal(builders[b]) EXCEPT !.builder = b])
  /\ UNCHANGED <<builders, heap, trail, effectVars, depVars, storeVars, singletonVars, cacheVars>>

\* stores[s]._setState(partial): the k-th _setState made on any store
StoreSetState ==
  /\ MoreSteps
  /\ \E s \in DOMAIN stores, partial \in StorePartials :
       LET k == Cardinality(TrailSetStates) + 1
           h == Spread(heap, stores[s].state, partial)
           call == <<"setState", k, s, partial, stores[s].state, Len(h)>>
       IN /\ heap' = h
          /\ stores' = [stores EXCEPT ![s].state = Len(h)]
          /\ trail' = Notify(stores[s].listeners, h[Len(h)], <<>>, k,
                             Append(trail, call)).notes
  /\ UNCHANGED <<builders, effectVars, depVars, storeVars, singletonVars, cacheVars>>

\* stores[s].subscribe(listener)
StoreSubscribe ==
  /\ MoreSteps
  /\ \E s \in DOMAIN stores, i \in ListenerFns :
       /\ stores' = [stores EXCEPT ![s].listeners = Added(@, Fn(i))]
       /\ trail' = Append(trail, <<"subscribe", s, Fn(i)>>)
  /\ UNCHANGED <<builders, heap, effectVars, depVars, storeVars, singletonVars, cacheVars>>

\* stores[s].actions.name(arg), for an action the store was configured
\* with: the property read gives undefined, the call of it throws a
\* TypeError, and neither the state nor a listener is touched
StoreAction ==
  /\ MoreSteps
  /\ \E s \in DOMAIN stores, arg \in ActionArgs :
       \E name \in Names(stores[s].config.actions) :
         LET action == GetProp(stores[s].actions, name)
         IN /\ action = Undefined
            /\ trail' = Append(trail, <<"action", s, name, arg, "TypeError",
                                        stores[s].state, stores[s].state>>)
  /\ UNCHANGED <<builders, heap, stores, effectVars, depVars, storeVars, singletonVars, cacheVars>>

NextBuilders ==
  \/ BuilderComputed
  \/ BuilderActions
  \/ BuilderAsyncActions
  \/ Build
  \/ StoreSetState
  \/ StoreSubscribe
  \/ StoreAction

\* createStore().initialState({ count: 0, name: 'counter' }): one builder
InitBuilders ==
  /\ heap = <<[count |-> 0, name |-> "counter"]>>
  /\ builders = <<InitialBuilder(1)>>
  /\ stores = <<>>
  /\ trail = <<>>

----------------------------------------------------------------------------
(* state-store: the singleton helper.  isClient is fixed when the module is *)
(* loaded; the helper's Map exists only in a client environment.            *)

SingletonKeys == {"app", "test-counter"}

\* An instance that createInstanceFn returned: the n-th one created
Instance(n) == <<"instance", n>>

\* new Map<string, any>(), and the Map holding the same entries as m and key -> v
NewMap == <<"Map", EmptyObject>>
Entries(m) == m[2]
MapSet(m, key, v) ==
  <<"Map", [k \in DOMAIN Entries(m) \cup {key} |-> IF k = key THEN v ELSE Entries(m)[k]]>>
MapDelete(m, key) ==
  <<"Map", [k \in DOMAIN Entries(m) \ {key} |-> Entries(m)[k]]>>

\* A has that finds no key.
HasNever(m, key) == FALSE

\* SINGLETON_INSTANCES_HELPER.has(key)
Has(m, key) == key \in DOMAIN Entries(m)

Creations == {i \in DOMAIN made : made[i][1] = "create"}
SingletonCalls == {i \in DOMAIN made : made[i][1] # "create"}

MaxSingletonCalls == 4

\* What a call of createInstanceFn does
CreateOutcomes == {"returned", "threw"}

\* getSingletonStore(key, createInstanceFn): the n-th call of a
\* createInstanceFn returns a new instance or throws; a throw leaves the Map
\* as it was and is the outcome of getSingletonStore
getSingletonStore ==
  /\ Cardinality(SingletonCalls) < MaxSingletonCalls
  /\ \E key \in SingletonKeys, outcome \in CreateOutcomes :
       LET n == Cardinality(Creations) + 1
           result == IF outcome = "returned" THEN Instance(n) ELSE <<"threw">>
           creation == <<"create", key, result>>
       IN IF instances = Null
          THEN /\ made' = made \o <<creation, <<"getSingletonStore", key, result>>>>
               /\ UNCHANGED instances
          ELSE IF ~Has(instances, key)
          THEN IF outcome = "returned"
               THEN /\ instances' = MapSet(instances, key, Instance(n))
                    /\ made' = made \o <<creation, <<"getSingletonStore", key, Instance(n)>>>>
               ELSE /\ made' = made \o <<creation, <<"getSingletonStore", key, result>>>>
                    /\ UNCHANGED instances
          ELSE /\ made' = Append(made, <<"getSingletonStore", key, Entries(instances)[key]>>)
               /\ UNCHANGED instances
  /\ UNCHANGED <<isClient, effectVars, depVars, storeVars, builderVars, cacheVars>>

\* cleanupSingletonStoreHelper(key)
cleanupSingletonStoreHelper ==
  /\ Cardinality(SingletonCalls) < MaxSingletonCalls
  /\ \E key \in SingletonKeys :
       /\ instances' = IF instances = Null THEN instances ELSE MapDelete(instances, key)
       /\ made' = Append(made, <<"cleanup", {key}>>)
  /\ UNCHANGED <<isClient, effectVars, depVars, storeVars, builderVars, cacheVars>>

\* cleanupAllSingletonStoresHelper()
cleanupAllSingletonStoresHelper ==
  /\ Cardinality(SingletonCalls) < MaxSingletonCalls
  /\ instances' = IF instances = Null THEN instances ELSE NewMap
  /\ made' = Append(made, <<"cleanup", SingletonKeys>>)
  /\ UNCHANGED <<isClient, effectVars, depVars, storeVars, builderVars, cacheVars>>

NextSingletons ==
  \/ getSingletonStore
  \/ cleanupSingletonStoreHelper
  \/ cleanupAllSingletonStoresHelper

\* The module as loaded in one of the given environments
InitSingletons(clients_) ==
  /\ isClient \in clients_
  /\ instances = IF isClient THEN NewMap ELSE Null
  /\ made = <<>>

----------------------------------------------------------------------------
(* effect-chain: the in-memory cache of createTestDep (createMockRedis).   *)
(* Every method is an async function without an await: its body runs when  *)
(* it is called, and the promise it returns is already settled.            *)

CacheKeys == {"key1", "key2"}
CacheValues == {"value1", "value2"}

\* The options of the callers: none, or a number of seconds
CacheOptions == {Undefined, <<"number", 1>>}

\* Date.now() + options * 1000, the clock counting half seconds
Expiry(options, t) ==
  IF options # Undefined /\ options[2] # 0 THEN <<"number", t + 2 * options[2]>> ELSE Undefined

\* item.expiry && Date.now() > item.expiry
Expired(item, t) == item.expiry # Undefined /\ item.expiry[2] # 0 /\ t > item.expiry[2]

\* A set that keeps the item a key already has.
StoredOnce(m, key, item) ==
  [k \in DOMAIN m \cup {key} |-> IF k \in DOMAIN m THEN m[k] ELSE item]

\* store.set(key, item)
Stored(m, key, item) == [k \in DOMAIN m \cup {key} |-> IF k = key THEN item ELSE m[k]]

\* store.delete(key)
Removed(m, key) == [k \in DOMAIN m \ {key} |-> m[k]]

RECURSIVE DelLoopCountingAll(_, _, _), DelLoop(_, _, _)

\* A del that counts every key it is given.
DelLoopCountingAll(m, keys, deleted) ==
  IF keys = <<>> THEN [store |-> m, deleted |-> deleted]
  ELSE DelLoopCountingAll(Removed(m, Head(keys)), Tail(keys), deleted + 1)

\* for (const k of keys) { if (store.delete(k)) deleted++; }
DelLoop(m, keys, deleted) ==
  IF keys = <<>> THEN [store |-> m, deleted |-> deleted]
  ELSE DelLoop(Removed(m, Head(keys)), Tail(keys),
               IF Head(keys) \in DOMAIN m THEN deleted + 1 ELSE deleted)

\* The arguments of del of the callers: a key, or a list of keys
DelArgs ==
  { <<"string", "key1">>, <<"string", "key2">>, <<"list", <<>>>>,
    <<"list", <<"key1", "key2">>>>, <<"list", <<"key2", "key2">>>> }

\* Array.isArray(key) ? key : [key]
KeyList(arg) == IF arg[1] = "list" THEN arg[2] ELSE <<arg[2]>>

MaxCacheCalls == 3
MaxNow == 4
MoreCacheCalls == Len(replies) < MaxCacheCalls

\* cache.get(key)
CacheGet ==
  /\ MoreCacheCalls
  /\ \E key \in CacheKeys :
       IF key \notin DOMAIN store
       THEN /\ replies' = Append(replies, <<"get", key, Null>>)
            /\ UNCHANGED store
       ELSE IF Expired(store[key], now)
       THEN /\ store' = Removed(store, key)
            /\ replies' = Append(replies, <<"get", key, Null>>)
       ELSE /\ replies' = Append(replies, <<"get", key, <<"string", store[key].value>>>>)
            /\ UNCHANGED store
  /\ UNCHANGED <<now, effectVars, depVars, storeVars, builderVars, singletonVars>>

\* cache.set(key, value, options)
CacheSet ==
  /\ MoreCacheCalls
  /\ \E key \in CacheKeys, value \in CacheValues, options \in CacheOptions :
       /\ store' = Stored(store, key, [value |-> value, expiry |-> Expiry(options, now)])
       /\ replies' = Append(replies, <<"set", key, value, options, "OK">>)
  /\ UNCHANGED <<now, effectVars, depVars, storeVars, builderVars, singletonVars>>

\* cache.del(key)
CacheDel ==
  /\ MoreCacheCalls
  /\ \E arg \in DelArgs :
       LET done == DelLoop(store, KeyList(arg), 0)
       IN /\ store' = done.store
          /\ replies' = Append(replies, <<"del", arg, done.deleted>>)
  /\ UNCHANGED <<now, effectVars, depVars, storeVars, builderVars, singletonVars>>

\* cache.disconnect() and cache.quit()
CacheDisconnect ==
  /\ MoreCacheCalls
  /\ store' = EmptyObject
  /\ replies' = Append(replies, <<"disconnect">>)
  /\ UNCHANGED <<now, effectVars, depVars, storeVars, builderVars, singletonVars>>

CacheQuit ==
  /\ MoreCacheCalls
  /\ store' = EmptyObject
  /\ replies' = Append(replies, <<"quit">>)
  /\ UNCHANGED <<now, effectVars, depVars, storeVars, builderVars, singletonVars>>

\* Time passes between two calls
Tick ==
  /\ now < MaxNow
  /\ now' = now + 1
  /\ UNCHANGED <<store, replies, effectVars, depVars, storeVars, builderVars, singletonVars>>

NextCache ==
  \/ CacheGet
  \/ CacheSet
  \/ CacheDel
  \/ CacheDisconnect
  \/ CacheQuit
  \/ Tick

\* createMockRedis()
InitCache ==
  /\ store = EmptyObject
  /\ now = 1
  /\ replies = <<>>

\* The other parts of the repository, each as it is when nothing has used it
InitRest == InitBuilders /\ InitSingletons({FALSE}) /\ InitCache

----------------------------------------------------------------------------
\* createStore().initialState(...).build() and
\* createStore().initialState(...).computed({doubled, isEven}).build()
TestConfig == [initialState |-> [count |-> 0, name |-> "test"], computed |-> {}]
ComputedConfig == [initialState |-> [count |-> 1, name |-> "test"], computed |-> ComputedDefs]

\* createStoreInternal(config)
InitStore(configs) ==
  /\ config \in configs
  /\ state = config.initialState
  /\ listeners = <<>>
  /\ selections = <<>>
  /\ computed = EmptyObject
  /\ notes = <<>>

InitEffects(programs) ==
  /\ effects = <<>>
  /\ promises = <<>>
  /\ microtasks = <<>>
  /\ timers = {}
  /\ maps = DepMaps
  /\ log = <<>>
  /\ runs = <<>>
  /\ script \in programs
  /\ pc = 1
  /\ env = <<>>

InitWith(programs) ==
  InitEffects(programs) /\ InitDefaultDep /\ InitStore({TestConfig}) /\ InitRest

\* Specifications of the default map and of the store: no Effect program runs.
SpecDefaultDep == InitWith({<<>>}) /\ [][NextDefaultDep]_vars

InitStores ==
  /\ InitEffects({<<>>}) /\ InitDefaultDep /\ InitRest
  /\ InitStore({TestConfig, ComputedConfig})

SpecStore == InitStores /\ [][NextStore]_vars

\* Specifications of the builder, of the singleton helper in a client and in
\* a server environment, and of the test cache.
InitBuilt ==
  InitEffects({<<>>}) /\ InitDefaultDep /\ InitStore({TestConfig}) /\ InitRest

SpecBuilders == InitBuilt /\ [][NextBuilders]_vars

InitLoaded ==
  /\ InitEffects({<<>>}) /\ InitDefaultDep /\ InitStore({TestConfig})
  /\ InitBuilders /\ InitSingletons(BOOLEAN) /\ InitCache

SpecSingletons == InitLoaded /\ [][NextSingletons]_vars

SpecCache == InitBuilt /\ [][NextCache]_vars

----------------------------------------------------------------------------
(* Programs of the caller.  A program is a sequence of calls; a call names *)
(* the Effects it uses by the position of the call that built them.        *)

\* The programs of the repository's test suite (effect.test.ts).
TestPrograms ==
  { \* pure(10).transform(x => x * 2).transform(...)
    << <<"pure", Atom(10)>>, <<"transform", 1, <<"double">>>>,
       <<"transform", 2, <<"inc">>>>, <<"run", 3, 1>>, <<"await", 4>> >>,
    \* pure(10).transform(() => { throw ... })
    << <<"pure", Atom(10)>>, <<"transform", 1, <<"fthrow", 7>>>>, <<"run", 2, 1>>,
       <<"await", 3>> >>,
    \* pure('1').chain(id => withDB(...)).chain(user => withLogger(...))
    << <<"pure", Atom(1)>>, <<"chain", 1, <<"kwithSingleDep", "db", "ok", 0>>>>,
       <<"chain", 2, <<"kwithSingleDep", "logger", "ok", 0>>>>, <<"run", 3, 1>> >>,
    \* pure(10).chain(x => pure(x * 2)).chain(() => { throw ... })
    << <<"pure", Atom(10)>>, <<"chain", 1, <<"kinc", 10>>>>,
       <<"chain", 2, <<"kthrow", 7>>>>, <<"run", 3, 1>> >>,
    \* all([pure(1), pure(2), pure(3)])
    << <<"pure", Atom(1)>>, <<"pure", Atom(2)>>, <<"pure", Atom(3)>>,
       <<"all", <<1, 2, 3>>>>, <<"run", 4, 1>> >>,
    \* all([pure(1), fromPromise(async () => { throw ... }), pure(3)])
    << <<"pure", Atom(1)>>, <<"fromPromise", <<"fail", 2>>>>, <<"pure", Atom(3)>>,
       <<"all", <<1, 2, 3>>>>, <<"run", 4, 1>> >>,
    \* race([fromPromise(10 ms), fromPromise(100 ms)])
    << <<"fromPromise", <<"slow", 1>>>>, <<"fromPromise", <<"slow", 2>>>>,
       <<"race", <<1, 2>>>>, <<"run", 3, 1>> >>,
    \* sequence([e1, e2, e3]) with e2 failing
    << <<"fromPromise", <<"ok", 1>>>>, <<"fromPromise", <<"fail", 2>>>>,
       <<"fromPromise", <<"ok", 3>>>>, <<"sequence", <<1, 2, 3>>>>, <<"run", 4, 1>> >>,
    \* withSingleDep('db', ...) and withDeps(...)
    << <<"withSingleDep", "db", <<"ok", 1>>>>, <<"run", 1, 1>>,
       <<"withDeps", <<"ok", 2>>>>, <<"run", 3, 1>> >>,
    \* a continuation applied by the caller itself
    << <<"apply", <<"kpure">>, Atom(1)>>, <<"run", 1, 1>> >> }

\* The longest chain of continuations a program hangs on one Effect.
MaxChain == 2

\* The Effects a chain starts from: every constructor, with a step that
\* succeeds, fails, throws before it answers, or settles on a timer.
ChainSelves ==
  { <<"pure", Atom(1)>>,
    <<"fromPromise", <<"ok", 2>>>>, <<"fromPromise", <<"fail", 3>>>>,
    <<"fromPromise", <<"slow", 4>>>>, <<"fromPromise", <<"throw", 5>>>>,
    <<"withSingleDep", "db", <<"ok", 6>>>>, <<"withSingleDep", "cache", <<"slowfail", 7>>>>,
    <<"withDeps", <<"ok", 8>>>>, <<"withDeps", <<"throw", 9>>>> }

ChainConts ==
  { <<"kpure">>, <<"kwithSingleDep", "cache", "ok", 10>>, <<"kfromPromise", "fail", 20>>,
    <<"kfromPromise", "slow", 30>>, <<"kwithDeps", "throw", 40>>, <<"kthrow", 50>> }

SeqsUpTo(S, n) == UNION {[1..k -> S] : k \in 1..n}

\* self.chain(k1).chain(k2)... .run(m)
ChainProgram(self, ks, m) ==
  <<self>> \o [i \in 1..Len(ks) |-> <<"chain", i, ks[i]>>] \o << <<"run", Len(ks) + 1, m>> >>

ChainPrograms ==
  { ChainProgram(self, ks, m) :
      self \in ChainSelves, ks \in SeqsUpTo(ChainConts, MaxChain), m \in 1..Len(DepMaps) }

Init == InitWith(TestPrograms \cup ChainPrograms)

\* Programs for the monad laws: each builds the two sides of a law and runs
\* both against the same map.  An Effect under a law is given as the calls
\* that build it, the last call answering with the Effect.  No Effect here
\* races two timers, so that both runs of a program see the same timing.
LawEffects ==
  {<<c>> : c \in ChainSelves} \cup
  { << <<"fromPromise", <<"ok", 2>>>>, <<"transform", 1, <<"inc">>>> >>,
    << <<"pure", Atom(1)>>, <<"transform", 1, <<"fthrow", 60>>>> >>,
    << <<"fromPromise", <<"ok", 2>>>>, <<"chain", 1, <<"kfromPromise", "fail", 20>>>> >>,
    << <<"pure", Atom(1)>>, <<"fromPromise", <<"slow", 4>>>>, <<"all", <<1, 2>>>> >>,
    << <<"fromPromise", <<"slow", 4>>>>, <<"fromPromise", <<"fail", 3>>>>,
       <<"race", <<1, 2>>>> >>,
    << <<"fromPromise", <<"ok", 2>>>>, <<"withDeps", <<"throw", 9>>>>,
       <<"sequence", <<1, 2>>>> >> }

LawValues == {Atom(1), Atom(2)}

\* Continuations that answer with an Effect.
LawConts ==
  { <<"kpure">>, <<"kinc", 100>>, <<"kwithSingleDep", "cache", "ok", 10>>,
    <<"kfromPromise", "fail", 20>>, <<"kfromPromise", "slow", 30>>,
    <<"kwithDeps", "ok", 40>>, <<"kwithDeps", "throw", 40>>,
    <<"kcompose", <<"kinc", 100>>, <<"kfromPromise", "ok", 70>>>> }

\* pure(x).chain(f).run(m) and f(x).run(m)
LeftIdentityPrograms ==
  { << <<"pure", x>>, <<"chain", 1, f>>, <<"run", 2, m>>, <<"await", 3>>,
       <<"apply", f, x>>, <<"run", 5, m>>, <<"await", 6>> >> :
      x \in LawValues, f \in LawConts, m \in 1..Len(DepMaps) }

\* e.run(m) and e.chain(x => pure(x)).run(m)
RightIdentityPrograms ==
  { e \o << <<"chain", Len(e), <<"kpure">>>>, <<"run", Len(e), m>>, <<"await", Len(e) + 2>>,
            <<"run", Len(e) + 1, m>>, <<"await", Len(e) + 4>> >> :
      e \in LawEffects, m \in 1..Len(DepMaps) }

\* e.chain(f).chain(g).run(m) and e.chain(x => f(x).chain(g)).run(m)
AssociativityPrograms ==
  { e \o << <<"chain", Len(e), f>>, <<"chain", Len(e) + 1, g>>,
            <<"chain", Len(e), <<"kcompose", f, g>>>>,
            <<"run", Len(e) + 2, m>>, <<"await", Len(e) + 4>>,
            <<"run", Len(e) + 3, m>>, <<"await", Len(e) + 6>> >> :
      e \in LawEffects, f \in ChainConts, g \in ChainConts, m \in 1..Len(DepMaps) }

\* Programs for the aggregates: all, race or sequence over up to MaxMembers
\* members.  Member i answers with i or fails with error i: at its start
\* (pure, failnow), by throwing at its start (throw), after some jobs (ok,
\* fail) or on a timer (slow, slowfail); a "late" member has a second stage
\* after its timer.
MaxMembers == 3

MemberKinds == {"pure", "ok", "fail", "failnow", "slow", "slowfail", "throw", "late"}

\* The calls that build member i, the first of them at script place base + 1.
MemberCalls(kind, i, base) ==
  CASE kind = "pure" -> << <<"pure", Atom(i)>> >>
    [] kind = "throw" -> << <<"withDeps", <<"throw", i>>>> >>
    [] kind = "failnow" -> << <<"withDeps", <<"fail", i>>>> >>
    [] kind = "late" ->
         << <<"fromPromise", <<"slow", i>>>>, <<"chain", base + 1, <<"kfromPromise", "ok", 10>>>> >>
    [] OTHER -> << <<"fromPromise", <<kind, i>>>> >>

RECURSIVE BuildMembers(_, _, _, _)
BuildMembers(kinds, i, calls, built) ==
  IF i > Len(kinds) THEN [calls |-> calls, built |-> built]
  ELSE LET new == MemberCalls(kinds[i], i, Len(calls))
       IN BuildMembers(kinds, i + 1, calls \o new, Append(built, Len(calls) + Len(new)))

\* const p = agg([...members]).run(m); await p
AggregateProgram(agg, kinds, m) ==
  LET b == BuildMembers(kinds, 1, <<>>, <<>>)
      n == Len(b.calls)
  IN b.calls \o << <<agg, b.built>>, <<"run", n + 1, m>>, <<"await", n + 2>> >>

AggregatePrograms ==
  { AggregateProgram(agg, kinds, 1) :
      agg \in {"all", "race", "sequence"},
      kinds \in UNION {[1..k -> MemberKinds] : k \in 0..MaxMembers} }

InitAggregates == InitWith(TestPrograms \cup AggregatePrograms)

SpecAggregates == InitAggregates /\ [][Next]_vars

\* Programs that run one Effect twice, against the same map or two maps:
\* the second run is started while the first is under way, or after its end.
SingleDepEffects ==
  { << <<"withSingleDep", "cache", <<"ok", 1>>>> >>,
    << <<"withSingleDep", "cache", <<"slow", 2>>>>,
       <<"chain", 1, <<"kwithSingleDep", "cache", "ok", 10>>>> >>,
    << <<"withSingleDep", "db", <<"ok", 3>>>>,
       <<"chain", 1, <<"kwithSingleDep", "cache", "fail", 20>>>> >>,
    << <<"withSingleDep", "cache", <<"ok", 4>>>>, <<"transform", 1, <<"inc">>>> >>,
    << <<"withSingleDep", "logger", <<"throw", 7>>>> >>,
    << <<"withSingleDep", "cache", <<"slow", 5>>>>, <<"withSingleDep", "logger", <<"ok", 6>>>>,
       <<"all", <<1, 2>>>> >> }

RepeatPrograms ==
  { e \o << <<"run", Len(e), m1>>, <<"run", Len(e), m2>>,
            <<"await", Len(e) + 1>>, <<"await", Len(e) + 2>> >> :
      e \in LawEffects \cup SingleDepEffects, m1 \in 1..Len(DepMaps), m2 \in 1..Len(DepMaps) }
  \cup
  { e \o << <<"run", Len(e), m1>>, <<"await", Len(e) + 1>>,
            <<"run", Len(e), m2>>, <<"await", Len(e) + 3>> >> :
      e \in LawEffects \cup SingleDepEffects, m1 \in 1..Len(DepMaps), m2 \in 1..Len(DepMaps) }

InitRuns == InitWith(TestPrograms \cup RepeatPrograms)

SpecRuns == InitRuns /\ [][Next]_vars

\* Programs that transform an Effect once or twice and run the result.
TransformFns == {<<"id">>, <<"inc">>, <<"double">>, <<"fthrow", 60>>}

TransformPrograms ==
  { << self, <<"transform", 1, f>>, <<"run", 2, m>>, <<"await", 3>> >> :
      self \in ChainSelves, f \in TransformFns, m \in 1..Len(DepMaps) }
  \cup
  { << self, <<"transform", 1, f>>, <<"transform", 2, g>>, <<"run", 3, m>>, <<"await", 4>> >> :
      self \in ChainSelves, f \in TransformFns, g \in TransformFns, m \in 1..Len(DepMaps) }

InitTransform == InitWith(TestPrograms \cup TransformPrograms)

SpecTransform == InitTransform /\ [][Next]_vars

\* e.run(m) and e.transform(x => x).run(m)
FunctorIdentityPrograms ==
  { e \o << <<"transform", Len(e), <<"id">>>>, <<"run", Len(e), m>>, <<"await", Len(e) + 2>>,
            <<"run", Len(e) + 1, m>>, <<"await", Len(e) + 4>> >> :
      e \in LawEffects, m \in 1..Len(DepMaps) }

\* e.transform(f).transform(g).run(m) and e.transform(x => g(f(x))).run(m)
FunctorCompositionPrograms ==
  { e \o << <<"transform", Len(e), f>>, <<"transform", Len(e) + 1, g>>,
            <<"transform", Len(e), <<"compose", f, g>>>>,
            <<"run", Len(e) + 2, m>>, <<"await", Len(e) + 4>>,
            <<"run", Len(e) + 3, m>>, <<"await", Len(e) + 6>> >> :
      e \in LawEffects, f \in TransformFns, g \in TransformFns, m \in 1..Len(DepMaps) }

InitFunctor ==
  InitWith(TestPrograms \cup FunctorIdentityPrograms \cup FunctorCompositionPrograms)

SpecFunctor == InitFunctor /\ [][Next]_vars

\* Programs that run an Effect, derive up to MaxDerived Effects from it with
\* transform and chain, run the last of these or not, and run the Effect again.
MaxDerived == 2

Derivations ==
  { <<"transform", <<"inc">>>>, <<"transform", <<"fthrow", 90>>>>,
    <<"chain", <<"kinc", 1>>>>, <<"chain", <<"kthrow", 91>>>> }

DeriveProgram(e, ds, m, also) ==
  LET n == Len(e)
      k == Len(ds)
      base == n + 2 + k + (IF also THEN 2 ELSE 0)
  IN e \o << <<"run", n, m>>, <<"await", n + 1>> >>
       \o [i \in 1..k |-> <<ds[i][1], n, ds[i][2]>>]
       \o (IF also THEN << <<"run", n + 2 + k, m>>, <<"await", n + 3 + k>> >> ELSE <<>>)
       \o << <<"run", n, m>>, <<"await", base + 1>> >>

DerivePrograms ==
  { DeriveProgram(e, ds, m, also) :
      e \in LawEffects \cup SingleDepEffects, ds \in SeqsUpTo(Derivations, MaxDerived),
      m \in 1..Len(DepMaps), also \in BOOLEAN }

InitDerive == InitWith(TestPrograms \cup DerivePrograms)

SpecDerive == InitDerive /\ [][Next]_vars

\* Programs that run pure(value): the value is a plain value, an error
\* object, a list, a handle, an Effect, or the promise of a run under way.
PureValues == {Atom(42), Undefined, Err(5), List(<<Atom(1), Atom(2)>>), Handle(1, "db")}

PurePrograms ==
  { << <<"pure", v>>, <<"run", 1, m>>, <<"await", 2>> >> : v \in PureValues, m \in 1..Len(DepMaps) }
  \cup
  { << <<"fromPromise", <<beh, 3>>>>, <<"run", 1, m>>, <<"pure", <<"ref", w>>>>, <<"run", 3, m>>,
       <<"await", 4>>, <<"pure", v>>, <<"run", 6, m>>, <<"await", 7>> >> :
      beh \in StepBehaviours, w \in {1, 2}, v \in PureValues, m \in 1..Len(DepMaps) }

InitPure == InitWith(TestPrograms \cup PurePrograms)

SpecPure == InitPure /\ [][Next]_vars

\* Programs that build an Effect with an accessor of creators.ts and with
\* the core constructor it delegates to, put each in the same context (none,
\* transform, chain, or all, sequence or race with a second Effect), and run
\* one after the other against the same map.
Accessors == {"withDB", "withLogger", "withCache", "withHttp"}

AccessorKey(a) ==
  CASE a = "withDB" -> "db" [] a = "withLogger" -> "logger"
    [] a = "withCache" -> "cache" [] a = "withHttp" -> "http"

\* withLogger alone admits a callback that returns a plain value
AccessorFns(a) ==
  {<<"ok", 1>>, <<"fail", 2>>, <<"throw", 3>>, <<"slow", 4>>}
    \cup (IF a = "withLogger" THEN {<<"plain", 5>>} ELSE {})

Contexts == {"self", "transform", "chain", "all", "sequence", "race"}

InContext(ctx, i) ==
  CASE ctx = "transform" -> <<"transform", i, <<"inc">>>>
    [] ctx = "chain" -> <<"chain", i, <<"kinc", 10>>>>
    [] OTHER -> <<ctx, <<i, 3>>>>

TwoRuns(first, second, m) ==
  << <<"run", first, m>>, <<"await", second + 1>>, <<"run", second, m>>, <<"await", second + 3>> >>

AccessorProgram(a, fn, ctx, m) ==
  LET built == << <<a, fn>>, <<"withSingleDep", AccessorKey(a), fn>> >>
  IN IF ctx = "self" THEN built \o TwoRuns(1, 2, m)
     ELSE built \o << <<"withSingleDep", "cache", <<"ok", 9>>>>, InContext(ctx, 1),
                      InContext(ctx, 2) >> \o TwoRuns(4, 5, m)

AccessorPrograms ==
  { AccessorProgram(a, fn, ctx, m) :
      a \in Accessors, fn \in UNION {AccessorFns(b) : b \in Accessors}, ctx \in Contexts,
      m \in 1..Len(DepMaps) }
  \ { AccessorProgram(a, <<"plain", 5>>, ctx, m) :
        a \in Accessors \ {"withLogger"}, ctx \in Contexts, m \in 1..Len(DepMaps) }

WithDepsPrograms ==
  { << <<"creators.withDeps", fn>>, <<"withDeps", fn>> >> \o TwoRuns(1, 2, m) :
      fn \in AccessorFns("withDB"), m \in 1..Len(DepMaps) }

InitCreators == InitWith(TestPrograms \cup AccessorPrograms \cup WithDepsPrograms)

SpecCreators == InitCreators /\ [][NextCreators]_vars

\* Every program of the chain, transform, law, aggregate and repeat families.
InitPrograms ==
  InitWith(TestPrograms \cup ChainPrograms \cup TransformPrograms \cup LeftIdentityPrograms
             \cup RightIdentityPrograms \cup AssociativityPrograms
             \cup AggregatePrograms \cup RepeatPrograms)

SpecPrograms == InitPrograms /\ [][Next]_vars

InitLaws ==
  InitWith(TestPrograms \cup LeftIdentityPrograms \cup RightIdentityPrograms
             \cup AssociativityPrograms)

SpecLaws == InitLaws /\ [][Next]_vars

Spec == Init /\ [][Next]_vars

----------------------------------------------------------------------------
(* Reading the history *)

Quiescent == microtasks = <<>> /\ timers = {}
Finished == pc > Len(script) /\ Quiescent

Events(tag) == {i \in DOMAIN log : log[i][1] = tag}

\* The calls of the _internalRun closure of an Effect built by constructor kind.
Activations(kind) == {i \in Events("start") : effects[log[i][4]][1] = kind}

\* The calls a closure made, by the promise P of the closure.
StartsBy(P) == {j \in Events("start") : log[j][3] = P}
ContsBy(P) == {j \in Events("cont") : log[j][3] = P}

ConstructorCalls ==
  {"pure", "fromPromise", "withSingleDep", "withDeps", "all", "race", "sequence",
   "transform", "chain"}

----------------------------------------------------------------------------
(* Laziness *)

NothingInvoked ==
  /\ promises = <<>> /\ microtasks = <<>> /\ timers = {}
  /\ \A i \in DOMAIN log : log[i][1] = "cont" /\ log[i][2] = 0

InvokedWithinARun ==
  \A i \in DOMAIN log :
    log[i][1] \in {"start", "step", "fn", "cont"} =>
      \/ log[i][1] = "cont" /\ log[i][2] = 0
      \/ /\ log[i][2] \in 1..Len(runs)
         /\ (log[i][1] = "start" /\ log[i][3] = 0) => log[i][4] = runs[log[i][2]].eff

ConstructorStep ==
  pc <= Len(script) /\ script[pc][1] \in ConstructorCalls /\ pc' = pc + 1

\* C1: building Effects, however deeply composed, invokes no callback of the
\* caller and starts no Effect: a constructor call leaves the history, the
\* promises, the job queue and the timers as they are; nothing is invoked
\* before the first run, and everything invoked belongs to a top-level run
\* of the Effect that was run.
Laziness ==
  /\ [](runs = <<>> => NothingInvoked)
  /\ []InvokedWithinARun
  /\ [][ConstructorStep => UNCHANGED <<log, promises, microtasks, timers>>]_vars

LazinessWitness ==
  /\ runs = <<>> /\ log = <<>>
  /\ \E e \in DOMAIN effects :
       /\ effects[e][1] = "chain"
       /\ effects[effects[e][2]][1] = "chain"
       /\ effects[effects[effects[e][2]][2]][1] \in {"fromPromise", "withSingleDep", "withDeps"}

----------------------------------------------------------------------------
(* chain *)

\* The promise of self's computation in the chain call at history place i
\* (0 when self's call threw): self is started first, by the chain closure.
SelfPromise(i) == log[i + 1][6]

SelfFailed(i) == SelfPromise(i) = 0 \/ promises[SelfPromise(i)].state = "rejected"

\* C2: in every run of self.chain(fn) the closure first starts self; fn is
\* invoked at most once, only after self's promise was fulfilled and with
\* the value it was fulfilled with; when self fails, fn is never invoked, no
\* second Effect is started, the chain's promise is never fulfilled and,
\* once the jobs are done, it is rejected with self's error.
ChainShortCircuit ==
  \A i \in Activations("chain") :
    LET e == log[i][4]
        P == log[i][6]
        Q == SelfPromise(i)
    IN /\ i + 1 \in Events("start")
       /\ log[i + 1][3] = P /\ log[i + 1][4] = effects[e][2]
       /\ Cardinality(ContsBy(P)) <= 1
       /\ \A j \in ContsBy(P) :
            /\ log[j][4] = effects[e][3]
            /\ Q # 0
            /\ \E s \in 1..(j - 1) : log[s] = <<"settle", Q, "fulfilled", log[j][5]>>
       /\ SelfFailed(i) =>
            /\ ContsBy(P) = {}
            /\ StartsBy(P) = {i + 1}
            /\ promises[P].state # "fulfilled"
            /\ microtasks = <<>> => promises[P].state = "rejected"
            /\ (Q # 0 /\ promises[P].state = "rejected") =>
                 promises[P].value = promises[Q].value

ChainShortCircuitWitness ==
  /\ Finished
  /\ \E i \in Activations("chain") :
       /\ SelfPromise(i) # 0
       /\ promises[SelfPromise(i)].state = "rejected"
       /\ promises[log[i][6]].state = "rejected"
       /\ effects[effects[log[i][4]][2]][1] = "chain"
  /\ \E i \in Activations("chain") : ContsBy(log[i][6]) # {}

\* The values a step may be handed in a run against map m.
HandedFrom(m) ==
  {None, MapRef(m)} \cup {Lookup(State, m, k) : k \in DependencyKeys}

\* C3: the chain closure passes the map it was called with to self and to
\* the Effect its continuation answers with; so every Effect started in a
\* run, however deep the chain, is started with the map given to run, and
\* every step is handed that map or an entry of it.
ChainSameMap ==
  /\ \A i \in Activations("chain") :
       \A j \in StartsBy(log[i][6]) : log[j][5] = log[i][5]
  /\ \A i \in Events("start") : log[i][5] = runs[log[i][2]].deps
  /\ \A i \in Events("step") : log[i][6] \in HandedFrom(runs[log[i][2]].deps)

ChainSameMapWitness ==
  \E i \in Activations("chain") :
    /\ log[i][5] = 2
    /\ Cardinality(StartsBy(log[i][6])) = 2
    /\ \E j \in Events("step") : log[j][6] = Handle(2, "cache") /\ log[j][2] = log[i][2]

----------------------------------------------------------------------------
(* The monad laws *)

\* How top-level run r ended: what its promise settled with, or what run threw.
Outcome(r) ==
  IF runs[r].threw THEN <<"threw", runs[r].val>>
  ELSE <<promises[runs[r].val[2]].state, promises[runs[r].val[2]].value>>

\* The callbacks invoked on behalf of run r, in order (r = 0: by the caller).
IsCallback(ev) == ev[1] \in {"step", "fn", "cont"}
Stripped(ev) == IF ev[1] = "step" THEN <<ev[1], ev[4], ev[5], ev[6]>> ELSE <<ev[1], ev[4], ev[5]>>
CallbacksOf(r) ==
  LET Mine(ev) == IsCallback(ev) /\ ev[2] = r
      mine == SelectSeq(log, Mine)
  IN [i \in 1..Len(mine) |-> Stripped(mine[i])]

WithoutCompose(tr) ==
  LET Plain(ev) == ~(ev[1] = "cont" /\ ev[2][1] = "kcompose")
  IN SelectSeq(tr, Plain)

IsLeftIdentity == script \in LeftIdentityPrograms
IsRightIdentity == script \in RightIdentityPrograms
IsAssociativity == script \in AssociativityPrograms

\* C4: pure(x).chain(f).run(m) ends as f(x).run(m) does, with the same
\* resolved value or the same rejection, and invokes the same callbacks in
\* the same order (the caller's own application of f counted with the
\* right-hand side).
LeftIdentity ==
  (IsLeftIdentity /\ Finished) =>
    /\ Outcome(1) = Outcome(2)
    /\ CallbacksOf(1) = CallbacksOf(0) \o CallbacksOf(2)

\* C5: e.chain(x => pure(x)).run(m) resolves to the same value or rejects
\* with the same error as e.run(m).
RightIdentity ==
  (IsRightIdentity /\ Finished) => Outcome(2) = Outcome(1)

\* Both identity laws do hold between two runs that answered with a promise:
\* the side run alone is the only one that can throw instead.
LeftIdentityOfPromises ==
  (IsLeftIdentity /\ Finished /\ ~runs[2].threw) =>
    /\ Outcome(1) = Outcome(2)
    /\ CallbacksOf(1) = CallbacksOf(0) \o CallbacksOf(2)

RightIdentityOfPromises ==
  (IsRightIdentity /\ Finished /\ ~runs[1].threw) => Outcome(2) = Outcome(1)

\* C6: e.chain(f).chain(g).run(m) and e.chain(x => f(x).chain(g)).run(m) end
\* with the same outcome and invoke the steps and f and g in the same order
\* with the same arguments.
Associativity ==
  (IsAssociativity /\ Finished) =>
    /\ Outcome(1) = Outcome(2)
    /\ WithoutCompose(CallbacksOf(1)) = WithoutCompose(CallbacksOf(2))

AssociativityWitness ==
  /\ IsAssociativity /\ Finished
  /\ Outcome(1)[1] = "fulfilled"
  /\ Len(WithoutCompose(CallbacksOf(2))) >= 4
  /\ \E i \in DOMAIN log : log[i][1] = "cont" /\ log[i][4][1] = "kcompose"

----------------------------------------------------------------------------
(* all and race *)

RECURSIVE SortedSeq(_)
SortedSeq(S) ==
  IF S = {} THEN <<>>
  ELSE LET m == CHOOSE x \in S : \A y \in S : x <= y
       IN <<m>> \o SortedSeq(S \ {m})

\* The history places where the aggregate called at place i started its
\* members, in the order of the calls, and the promises those calls returned.
MemberStarts(i) == SortedSeq(StartsBy(log[i][6]))
MemberPromises(i) == {log[j][6] : j \in StartsBy(log[i][6])} \ {0}

\* The history place where promise q was settled.
SettledAt(q) == CHOOSE s \in Events("settle") : log[s][2] = q

Settled(qs) == {q \in qs : promises[q].state # "pending"}

\* Every member of the aggregate called at place i was started and returned
\* a promise, and all those promises are fulfilled.
AllFulfilled(i) ==
  LET ms == MemberStarts(i)
  IN /\ Len(ms) = Len(effects[log[i][4]][2])
     /\ \A j \in 1..Len(ms) :
          log[ms[j]][6] # 0 /\ promises[log[ms[j]][6]].state = "fulfilled"

\* C7: all starts its members in list order against its own map; its
\* promise is fulfilled only when every member's promise is, with the list
\* whose j-th element is the value of the j-th member, and it is fulfilled
\* once every member is and the jobs are done.
AllResultOrder ==
  \A i \in Activations("all") :
    LET effs == effects[log[i][4]][2]
        P == log[i][6]
        ms == MemberStarts(i)
    IN /\ Len(ms) <= Len(effs)
       /\ \A j \in 1..Len(ms) : log[ms[j]][4] = effs[j] /\ log[ms[j]][5] = log[i][5]
       /\ promises[P].state = "fulfilled" =>
            /\ AllFulfilled(i)
            /\ promises[P].value =
                 List([j \in 1..Len(effs) |-> promises[log[ms[j]][6]].value])
       /\ (AllFulfilled(i) /\ microtasks = <<>>) => promises[P].state = "fulfilled"

\* An all of distinct values was fulfilled although a later member settled
\* before an earlier one.
AllResultOrderWitness ==
  \E i \in Activations("all") :
    LET ms == MemberStarts(i)
    IN /\ promises[log[i][6]].state = "fulfilled"
       /\ AllFulfilled(i)
       /\ \E j, k \in 1..Len(ms) :
            /\ j < k
            /\ SettledAt(log[ms[k]][6]) < SettledAt(log[ms[j]][6])
            /\ promises[log[ms[j]][6]].value # promises[log[ms[k]][6]].value

\* A member fails when its call throws or when its promise is rejected, and
\* is over when it failed or its promise is fulfilled; j is the history place
\* of the member's start.
Over(j) == log[j][6] = 0 \/ promises[log[j][6]].state # "pending"
Failed(j) == log[j][6] = 0 \/ promises[log[j][6]].state = "rejected"
OverAt(j) == IF log[j][6] = 0 THEN j ELSE SettledAt(log[j][6])
How(j) == IF log[j][6] = 0 THEN "rejected" ELSE promises[log[j][6]].state
What(j) == IF log[j][6] = 0 THEN log[j][7] ELSE promises[log[j][6]].value
First(js) == CHOOSE j \in js : \A k \in js : OverAt(j) <= OverAt(k)

\* C8: once a member of all has failed, the promise of all is never
\* fulfilled, and as soon as the jobs are done it is rejected with the error
\* of the member that failed first, whether or not other members are still
\* pending.
AllFailFast ==
  \A i \in Activations("all") :
    LET P == log[i][6]
        failed == {j \in StartsBy(P) : Failed(j)}
    IN failed # {} =>
         /\ promises[P].state # "fulfilled"
         /\ microtasks = <<>> =>
              /\ promises[P].state = "rejected"
              /\ promises[P].value = What(First(failed))

\* Every promise a member of all or race returned is settled when the event
\* loop has nothing left to do, and every chain whose first stage was
\* fulfilled has invoked its continuation.
LosersComplete ==
  Quiescent =>
    /\ \A i \in Activations("all") \cup Activations("race") :
         \A q \in MemberPromises(i) : promises[q].state # "pending"
    /\ \A c \in Activations("chain") :
         (SelfPromise(c) # 0 /\ promises[SelfPromise(c)].state = "fulfilled") =>
           ContsBy(log[c][6]) # {}

\* The settlement of an aggregate's promise stays what it is.
OutcomeStable ==
  \A i \in Activations("all") \cup Activations("race") :
    promises[log[i][6]].state # "pending" =>
      /\ promises'[log[i][6]].state = promises[log[i][6]].state
      /\ promises'[log[i][6]].value = promises[log[i][6]].value

\* C9: the settlement of all or race cancels nothing: the other members run
\* to completion, their callbacks are still invoked and their promises are
\* settled, and none of this changes the outcome of the aggregate.
NoCancellation == []LosersComplete /\ [][OutcomeStable]_vars

\* After the aggregate's promise was settled, a member invoked a callback of
\* the caller and its promise was settled.
NoCancellationWitness ==
  \E i \in Activations("all") \cup Activations("race") :
    LET P == log[i][6]
    IN /\ promises[P].state # "pending"
       /\ \E q \in Settled(MemberPromises(i)) :
            /\ SettledAt(q) > SettledAt(P)
            /\ \E j \in ContsBy(q) : j > SettledAt(P)

\* C10: the promise of race is settled only after a member is over, and then
\* as the member that was over first: fulfilled with its value or rejected
\* with its error; it is settled once a member is over and the jobs are done,
\* whether or not other members are still pending.
RaceFirstSettled ==
  \A i \in Activations("race") :
    LET P == log[i][6]
        done == {j \in StartsBy(P) : Over(j)}
    IN /\ promises[P].state # "pending" =>
            /\ done # {}
            /\ promises[P].state = How(First(done))
            /\ promises[P].value = What(First(done))
       /\ (done # {} /\ microtasks = <<>>) => promises[P].state # "pending"

----------------------------------------------------------------------------
(* sequence *)

\* The members of the sequence called at place i whose promise is pending.
InFlight(i) == {q \in MemberPromises(i) : promises[q].state = "pending"}

\* C11: sequence starts its members in list order against its own map;
\* each member but the first is started only after the promise of the member
\* before it was fulfilled; at most one member's promise is pending at any
\* time; the promise of sequence is fulfilled only when every member's is,
\* with the list of their values in list order, and it is fulfilled once
\* every member is and the jobs are done.
SequenceOrder ==
  \A i \in Activations("sequence") :
    LET effs == effects[log[i][4]][2]
        P == log[i][6]
        ms == MemberStarts(i)
    IN /\ Len(ms) <= Len(effs)
       /\ \A j \in 1..Len(ms) : log[ms[j]][4] = effs[j] /\ log[ms[j]][5] = log[i][5]
       /\ \A j \in 2..Len(ms) :
            /\ log[ms[j - 1]][6] # 0
            /\ promises[log[ms[j - 1]][6]].state = "fulfilled"
            /\ SettledAt(log[ms[j - 1]][6]) < ms[j]
       /\ Cardinality(InFlight(i)) <= 1
       /\ promises[P].state = "fulfilled" =>
            /\ AllFulfilled(i)
            /\ promises[P].value =
                 List([j \in 1..Len(effs) |-> promises[log[ms[j]][6]].value])
       /\ (AllFulfilled(i) /\ microtasks = <<>>) => promises[P].state = "fulfilled"

\* A sequence of three members was fulfilled, the second started after a
\* timer had settled the first.
SequenceOrderWitness ==
  \E i \in Activations("sequence") :
    LET ms == MemberStarts(i)
    IN /\ Len(ms) = 3
       /\ promises[log[i][6]].state = "fulfilled"
       /\ \E s \in Events("step") :
            log[s][3] = log[ms[1]][6] /\ log[s][4] = "slow" /\ s < ms[2]

\* C12: when a member of sequence fails, it is the last member that was
\* started: the members before it were started in list order and fulfilled,
\* no member after it is ever started, the promise of sequence is never
\* fulfilled and, once the jobs are done, it is rejected with the error of
\* that member.
SequenceShortCircuit ==
  \A i \in Activations("sequence") :
    LET P == log[i][6]
        ms == MemberStarts(i)
        failed == {j \in 1..Len(ms) : Failed(ms[j])}
    IN failed # {} =>
         /\ failed = {Len(ms)}
         /\ \A j \in 1..Len(ms) : log[ms[j]][4] = effects[log[i][4]][2][j]
         /\ promises[P].state # "fulfilled"
         /\ microtasks = <<>> =>
              /\ promises[P].state = "rejected"
              /\ promises[P].value = What(ms[Len(ms)])

\* The second of three members was rejected on a timer; the event loop is
\* idle, the sequence is rejected and the third member was never started.
SequenceShortCircuitWitness ==
  \E i \in Activations("sequence") :
    LET ms == MemberStarts(i)
    IN /\ Len(effects[log[i][4]][2]) = 3
       /\ Len(ms) = 2
       /\ Quiescent
       /\ log[ms[2]][6] # 0
       /\ promises[log[ms[2]][6]].state = "rejected"
       /\ promises[log[i][6]].state = "rejected"

----------------------------------------------------------------------------
(* Errors *)

Composites == {"transform", "chain", "all", "race", "sequence"}
FailingSteps == {"fail", "throw", "slowfail"}

\* The errors thrown by the transform functions and continuations that the
\* closure with promise P invoked itself.
ThrownBy(P) ==
  {Err(log[j][4][2]) : j \in {j \in Events("fn") : log[j][3] = P /\ log[j][4][1] = "fthrow"}}
  \cup {Err(log[j][4][2]) : j \in {j \in ContsBy(P) : log[j][4][1] = "kthrow"}}

\* The errors the closure with promise P met: those of the Effects it
\* started that failed, and those its own callbacks threw.
FailuresOf(P) == {What(j) : j \in {j \in StartsBy(P) : Failed(j)}} \cup ThrownBy(P)

\* The errors raised by the caller's callbacks in top-level run r.
RaisedIn(r) ==
  {Err(log[j][5]) : j \in {j \in Events("step") : log[j][2] = r /\ log[j][4] \in FailingSteps}}
  \cup {Err(log[j][4][2]) :
          j \in {j \in Events("fn") \cup Events("cont") :
                   log[j][2] = r /\ log[j][4][1] \in {"fthrow", "kthrow"}}}

\* C13: an error travels outwards as the value it is and is never turned
\* into a success.  A step Effect that fails, fails with the error its step
\* raised; a transform, chain, all or sequence closure that met a failure is
\* never fulfilled and is rejected once the jobs are done; every rejected
\* composite is rejected with exactly one of the errors it met; so a
\* top-level run of a composite never throws, and when its promise is
\* rejected, it is with an error a callback raised in that run.  No promise
\* is fulfilled with an error value.
ErrorsPropagate ==
  /\ \A i \in Events("start") :
       LET kind == effects[log[i][4]][1]
           P == log[i][6]
       IN /\ (kind \notin Composites /\ Failed(i)) =>
               /\ log[i + 1][1] = "step" /\ log[i + 1][4] \in FailingSteps
               /\ What(i) = Err(log[i + 1][5])
          /\ kind \in Composites =>
               /\ P # 0
               /\ promises[P].state = "rejected" => promises[P].value \in FailuresOf(P)
               /\ (kind # "race" /\ FailuresOf(P) # {}) =>
                    /\ promises[P].state # "fulfilled"
                    /\ microtasks = <<>> => promises[P].state = "rejected"
          /\ (P # 0 /\ promises[P].state = "fulfilled") => promises[P].value[1] # "error"
  /\ \A r \in 1..Len(runs) :
       effects[runs[r].eff][1] \in Composites =>
         /\ ~runs[r].threw
         /\ promises[runs[r].val[2]].state = "rejected" =>
              promises[runs[r].val[2]].value \in RaisedIn(r)

\* A top-level run was rejected with the error of a step Effect that was
\* started two closures or more below it.
ErrorsPropagateWitness ==
  \E r \in 1..Len(runs) :
    /\ ~runs[r].threw
    /\ promises[runs[r].val[2]].state = "rejected"
    /\ \E i \in Events("start") :
         /\ log[i][2] = r
         /\ effects[log[i][4]][1] \notin Composites
         /\ log[i][3] \notin {0, runs[r].val[2]}
         /\ Failed(i)
         /\ What(i) = promises[runs[r].val[2]].value

StepConstructors == {"pure", "fromPromise", "withSingleDep", "withDeps"}

\* The call at history place i invoked a step that threw before it answered.
StepThrew(i) ==
  i + 1 \in Events("step") /\ log[i + 1][2] = log[i][2] /\ log[i + 1][4] = "throw"

\* The call at history place i answered with a promise, and when its step
\* threw, that promise is rejected with what the step threw.
Normalized(i) ==
  /\ log[i][6] # 0
  /\ StepThrew(i) =>
       /\ promises[log[i][6]].state = "rejected"
       /\ promises[log[i][6]].value = Err(log[i + 1][5])

\* C14: every call of the closure of an Effect built by pure, fromPromise,
\* withSingleDep or withDeps answers with a promise, rejected with the thrown
\* value when the step threw; no call of run by the caller throws.
SyncThrowNormalized ==
  /\ \A i \in Events("start") :
       effects[log[i][4]][1] \in StepConstructors => Normalized(i)
  /\ \A r \in 1..Len(runs) : ~runs[r].threw

\* The same holds of the three constructors that wrap the step in an async
\* closure, and of every run of an Effect not built by withDeps.
SyncThrowNormalizedWrapped ==
  /\ \A i \in Events("start") :
       effects[log[i][4]][1] \in StepConstructors \ {"withDeps"} => Normalized(i)
  /\ \A r \in 1..Len(runs) : effects[runs[r].eff][1] # "withDeps" => ~runs[r].threw

\* The chain calls that have the call at history place a as their first
\* stage, directly or through chains between them: the continuations
\* chained after it.
ChainedAfter(a) ==
  {o \in Activations("chain") :
     /\ o < a
     /\ \A k \in o..(a - 1) :
          k \in Activations("chain") /\ k + 1 \in Events("start") /\ log[k + 1][3] = log[k][6]}

\* C15: when the continuation of a chain throws, the chain starts no second
\* Effect and its promise is rejected at once with the thrown error; no
\* continuation chained after it is ever invoked, and the promises of those
\* chains are never fulfilled and, once the jobs are done, are rejected with
\* the same error.
ContinuationThrow ==
  \A i \in Activations("chain") :
    LET P == log[i][6]
    IN \A j \in ContsBy(P) :
         log[j][4][1] = "kthrow" =>
           /\ promises[P].state = "rejected"
           /\ promises[P].value = Err(log[j][4][2])
           /\ StartsBy(P) = {i + 1}
           /\ \A o \in ChainedAfter(i) :
                /\ ContsBy(log[o][6]) = {}
                /\ promises[log[o][6]].state # "fulfilled"
                /\ microtasks = <<>> =>
                     /\ promises[log[o][6]].state = "rejected"
                     /\ promises[log[o][6]].value = Err(log[j][4][2])

\* The first continuation of a chain of two threw; the event loop is idle
\* and the top-level run is rejected.
ContinuationThrowWitness ==
  \E i \in Activations("chain") :
    /\ \E j \in ContsBy(log[i][6]) : log[j][4][1] = "kthrow"
    /\ \E o \in ChainedAfter(i) : log[o][3] = 0 /\ promises[log[o][6]].state = "rejected"
    /\ Quiescent

----------------------------------------------------------------------------
(* Repeated runs *)

\* The calls made in top-level run r, and the one the caller made itself.
StartsIn(r) == {i \in Events("start") : log[i][2] = r}
TopStarts(r) == {i \in StartsIn(r) : log[i][3] = 0}

SameRuns(r1, r2) == runs[r1].eff = runs[r2].eff /\ runs[r1].deps = runs[r2].deps

\* C16: every run calls the closure of its Effect anew and answers with a
\* promise of its own; within a run no Effect is started twice and every
\* step Effect that is started invokes its step exactly once; so two runs
\* of one Effect against one map each invoke the same callbacks with the
\* same arguments and end alike.
NoMemoization ==
  /\ \A r \in 1..Len(runs) :
       /\ Cardinality(TopStarts(r)) = 1
       /\ \A i \in TopStarts(r) :
            /\ log[i][4] = runs[r].eff
            /\ ~runs[r].threw => log[i][6] = runs[r].val[2]
       /\ \A i, j \in StartsIn(r) : log[i][4] = log[j][4] => i = j
       /\ \A i \in StartsIn(r) :
            effects[log[i][4]][1] \in StepConstructors \ {"pure"} =>
              i + 1 \in Events("step") /\ log[i + 1][2] = r
       /\ Cardinality({j \in Events("step") : log[j][2] = r}) =
            Cardinality({i \in StartsIn(r) : effects[log[i][4]][1] \in StepConstructors \ {"pure"}})
  /\ \A r1, r2 \in 1..Len(runs) :
       (r1 < r2 /\ ~runs[r1].threw /\ ~runs[r2].threw) => runs[r1].val # runs[r2].val
  /\ \A r1, r2 \in 1..Len(runs) :
       (SameRuns(r1, r2) /\ Finished) =>
         Outcome(r1) = Outcome(r2) /\ CallbacksOf(r1) = CallbacksOf(r2)

\* Two runs of one chain against one map are over and fulfilled, each after
\* two callbacks or more.
NoMemoizationWitness ==
  /\ Finished
  /\ \E r1, r2 \in 1..Len(runs) :
       /\ r1 < r2 /\ SameRuns(r1, r2)
       /\ effects[runs[r1].eff][1] = "chain"
       /\ ~runs[r2].threw /\ promises[runs[r2].val[2]].state = "fulfilled"
       /\ Len(CallbacksOf(r2)) >= 2

\* What the step of the call at history place i is to receive from map d.
Due(i, d) ==
  LET kind == effects[log[i][4]][1]
      key == effects[log[i][4]][2]
  IN CASE kind = "withSingleDep" -> IF key \in DOMAIN maps[d] THEN maps[d][key] ELSE Undefined
       [] kind = "withDeps" -> MapRef(d)
       [] OTHER -> None

\* The callbacks of run r without what the steps received.
Unhanded(r) ==
  LET tr == CallbacksOf(r)
  IN [i \in 1..Len(tr) |-> IF tr[i][1] = "step" THEN <<tr[i][1], tr[i][2], tr[i][3]>> ELSE tr[i]]

\* C17: runs do not interfere.  Every Effect started in a run is started
\* with the map of that run and every step invoked in it receives exactly
\* its entry of that map (or the map itself, or nothing), whatever other
\* runs are under way; and two runs of one Effect, against whatever maps
\* and however interleaved, invoke the same callbacks in the same order and
\* end alike.
RunIsolation ==
  /\ \A i \in Events("start") :
       /\ log[i][2] \in 1..Len(runs)
       /\ log[i][5] = runs[log[i][2]].deps
  /\ \A j \in Events("step") :
       /\ j - 1 \in Events("start") /\ log[j - 1][2] = log[j][2]
       /\ log[j][6] = Due(j - 1, runs[log[j][2]].deps)
  /\ \A r1, r2 \in 1..Len(runs) :
       (runs[r1].eff = runs[r2].eff /\ Finished) =>
         Outcome(r1) = Outcome(r2) /\ Unhanded(r1) = Unhanded(r2)

\* Two runs of one Effect against maps 1 and 2 were under way together: the
\* second was started before a step of the first received its handle of
\* map 1, and a step of the second received its handle of map 2.
RunIsolationWitness ==
  \E r1, r2 \in 1..Len(runs) :
    /\ r1 < r2 /\ runs[r1].eff = runs[r2].eff
    /\ runs[r1].deps = 1 /\ runs[r2].deps = 2
    /\ \E j1, j2 \in Events("step") :
         /\ log[j1][2] = r1 /\ log[j1][6] = Handle(1, "cache")
         /\ log[j2][2] = r2 /\ log[j2][6] = Handle(2, "cache")
         /\ \E i \in TopStarts(r2) : i < j1 /\ j1 < j2

----------------------------------------------------------------------------
(* transform *)

\* The calls of its transform function by the closure with promise P.
FnsBy(P) == {j \in Events("fn") : log[j][3] = P}

\* What transform function fn makes of v, when it returns.
FnValue(fn, v) ==
  CASE fn[1] = "id" -> v
    [] fn[1] = "inc" -> Atom(NumOf(v) + 1)
    [] fn[1] = "double" -> Atom(2 * NumOf(v))

----------------------------------------------------------------------------
(* withSingleDep *)

\* The calls of its step by the closure with promise P.
StepsBy(P) == {j \in Events("step") : log[j][3] = P}

\* C19: every call of the closure of withSingleDep(depKey, fn) answers with a
\* promise and invokes fn exactly once, at once, with the map's entry for
\* depKey, or with undefined when the map has none; the promise is rejected
\* with what fn threw, and otherwise stays pending while the promise fn
\* answered with is, never settles otherwise than that promise did, and has
\* settled as it did once the jobs are done.
SingleDepSemantics ==
  \A i \in Activations("withSingleDep") :
    LET e == log[i][4]
        d == log[i][5]
        P == log[i][6]
        q == P + 1
    IN /\ P # 0
       /\ StepsBy(P) = {i + 1}
       /\ log[i + 1][4] = effects[e][3][1]
       /\ log[i + 1][6] =
            (IF effects[e][2] \in DOMAIN maps[d] THEN maps[d][effects[e][2]] ELSE Undefined)
       /\ IF log[i + 1][4] = "throw"
          THEN promises[P].state = "rejected" /\ promises[P].value = Err(log[i + 1][5])
          ELSE /\ promises[P].state # "pending" =>
                    /\ promises[P].state = promises[q].state
                    /\ promises[P].value = promises[q].value
               /\ (promises[q].state # "pending" /\ microtasks = <<>>) =>
                    promises[P].state # "pending"

\* A withSingleDep Effect run on a map without its entry invoked its step
\* with undefined and was fulfilled all the same.
SingleDepSemanticsWitness ==
  \E i \in Activations("withSingleDep") :
    /\ effects[log[i][4]][2] \notin DOMAIN maps[log[i][5]]
    /\ log[i + 1][6] = Undefined
    /\ promises[log[i][6]].state = "fulfilled"

\* The keys a continuation reads through withSingleDep, and whether it
\* builds an Effect that receives the whole map.
RECURSIVE ContKeys(_)
ContKeys(k) ==
  CASE k[1] = "kwithSingleDep" -> {k[2]}
    [] k[1] = "kcompose" -> ContKeys(k[2]) \cup ContKeys(k[3])
    [] OTHER -> {}

RECURSIVE ContWholeMap(_)
ContWholeMap(k) ==
  CASE k[1] = "kwithDeps" -> TRUE
    [] k[1] = "kcompose" -> ContWholeMap(k[2]) \/ ContWholeMap(k[3])
    [] OTHER -> FALSE

\* The same of the whole program.
KeysOf(prog) ==
  UNION { CASE prog[c][1] = "withSingleDep" -> {prog[c][2]}
            [] prog[c][1] = "chain" -> ContKeys(prog[c][3])
            [] prog[c][1] = "apply" -> ContKeys(prog[c][2])
            [] OTHER -> {} : c \in DOMAIN prog }

WholeMap(prog) ==
  \E c \in DOMAIN prog :
    \/ prog[c][1] = "withDeps"
    \/ prog[c][1] = "chain" /\ ContWholeMap(prog[c][3])
    \/ prog[c][1] = "apply" /\ ContWholeMap(prog[c][2])

\* Maps m1 and m2 hold the same entry, or both none, for every key of D.
Agree(m1, m2, D) ==
  \A k \in D :
    /\ (k \in DOMAIN maps[m1]) = (k \in DOMAIN maps[m2])
    /\ k \in DOMAIN maps[m1] => maps[m1][k] = maps[m2][k]

\* C20: when no Effect of the program receives the whole map, two runs of
\* one Effect against maps that agree on the keys the program reads through
\* withSingleDep end with the same outcome and invoke the same callbacks
\* with the same arguments, whatever else the maps hold.
ExtraEntriesHarmless ==
  \A r1, r2 \in 1..Len(runs) :
    ( /\ runs[r1].eff = runs[r2].eff
      /\ ~WholeMap(script)
      /\ Agree(runs[r1].deps, runs[r2].deps, KeysOf(script))
      /\ Finished ) =>
      Outcome(r1) = Outcome(r2) /\ CallbacksOf(r1) = CallbacksOf(r2)

\* A chain of two withSingleDep Effects on the cache was run against map 1
\* and against map 3, which hold the same cache and different databases,
\* and both runs are over.
ExtraEntriesHarmlessWitness ==
  /\ Finished /\ ~WholeMap(script) /\ KeysOf(script) = {"cache"}
  /\ \E r1, r2 \in 1..Len(runs) :
       /\ runs[r1].eff = runs[r2].eff /\ effects[runs[r1].eff][1] = "chain"
       /\ runs[r1].deps = 1 /\ runs[r2].deps = 3
       /\ maps[1]["db"] # maps[3]["db"]
       /\ Len(CallbacksOf(r2)) = 3
       /\ \A j \in Events("step") : log[j][6] = Handle(1, "cache")

----------------------------------------------------------------------------
(* The frame of the core *)

\* C21: no step of the program (constructor, transform, chain, all, race,
\* sequence, run, promise job or timer) adds, removes or replaces an entry
\* of a dependency map: every map keeps its keys and the handles bound to
\* them, so after any run the map is what it was before.
MapReadOnly == [][maps' = maps]_vars

\* A run of a composite Effect against the partial map 3 is over, its
\* steps having received handles of that map, and the maps are as the
\* caller built them.
MapReadOnlyWitness ==
  /\ Finished
  /\ maps = DepMaps
  /\ \E r \in 1..Len(runs) :
       /\ runs[r].deps = 3
       /\ effects[runs[r].eff][1] \in Composites
       /\ \E i \in Events("step") : log[i][2] = r /\ log[i][6] = Handle(3, "db")
       /\ \E i \in Events("step") : log[i][2] = r /\ log[i][6] = Handle(1, "cache")

\* The receiver of a program that derives Effects: the Effect of its first
\* run; and the Effects derived from it afterwards.
IsDerive == script \in DerivePrograms
FirstRun == CHOOSE i \in DOMAIN script : script[i][1] = "run" /\ \A j \in 1..(i - 1) : script[j][1] # "run"
Receiver == script[FirstRun][2]
DerivedAt == {i \in DOMAIN env : i > FirstRun /\ script[i][1] \in {"transform", "chain"}}
Derived == {env[i][2] : i \in DerivedAt}
ReceiverRuns == {r \in 1..Len(runs) : runs[r].eff = env[Receiver][2]}

\* transform and chain answer with an Effect that no earlier call answered with
DerivedIsNew ==
  \A i, j \in DOMAIN env :
    (i < j /\ script[j][1] \in {"transform", "chain"}) => env[i] # env[j]

\* no run of the receiver starts a derived Effect, and all runs of the
\* receiver, before and after the derivations, invoke the same callbacks
\* with the same arguments and end alike
ReceiverUnchanged ==
  IsDerive =>
    /\ \A r \in ReceiverRuns : \A i \in StartsIn(r) : log[i][4] \notin Derived
    /\ Finished => \A r1, r2 \in ReceiverRuns :
                     Outcome(r1) = Outcome(r2) /\ CallbacksOf(r1) = CallbacksOf(r2)

\* an Effect object, once built, keeps its closure
EffectsKept ==
  /\ Len(effects') >= Len(effects)
  /\ \A e \in DOMAIN effects : effects'[e] = effects[e]

\* C22: Effects are immutable: no step changes the closure of an Effect
\* already built; transform and chain answer with a new Effect; and a
\* receiver run before and after Effects were derived from it (whether or
\* not a derived Effect was run in between) ends the same way having
\* invoked the same callbacks, none of them a transform function or a
\* continuation of a derived Effect.
EffectsImmutable == [](DerivedIsNew /\ ReceiverUnchanged) /\ [][EffectsKept]_vars

\* A composite receiver was run, a transform and a chain were derived from
\* it, the chain was run and ended otherwise than the receiver, and the
\* receiver was run again: all is over.
EffectsImmutableWitness ==
  /\ IsDerive /\ Finished
  /\ Cardinality(Derived) = 2
  /\ \E d1, d2 \in Derived : effects[d1][1] = "transform" /\ effects[d2][1] = "chain"
  /\ effects[env[Receiver][2]][1] \in Composites
  /\ Cardinality(ReceiverRuns) = 2
  /\ \E r \in ReceiverRuns : Len(CallbacksOf(r)) >= 2
  /\ \E r \in 1..Len(runs), q \in ReceiverRuns :
       runs[r].eff \in Derived /\ Outcome(r) # Outcome(q)

----------------------------------------------------------------------------
(* The step constructors *)

\* The promise a pure Effect was built around is settled with its own outcome
SettlesAs(p, q) ==
  /\ promises[p].state # "pending" =>
       promises[p].state = promises[q].state /\ promises[p].value = promises[q].value
  /\ (Quiescent /\ promises[q].state # "pending") => promises[p].state # "pending"

\* C23: every call of the closure of pure(value), against any map (the
\* empty map included), answers with a promise and never throws; when value
\* is not a promise, the promise is fulfilled with value at once; when
\* value is a promise, the promise settles exactly as value does, so it is
\* rejected exactly when value is a rejected promise.
PureResolves ==
  \A i \in Activations("pure") :
    LET v == effects[log[i][4]][2]
        p == log[i][6]
    IN /\ p # 0
       /\ ~IsPromise(v) => promises[p].state = "fulfilled" /\ promises[p].value = v
       /\ IsPromise(v) => SettlesAs(p, v[2])

\* pure(value).run(m) resolves to value and is never rejected, whatever value is
PureNeverRejects ==
  \A i \in Activations("pure") :
    LET v == effects[log[i][4]][2]
        p == log[i][6]
    IN /\ p # 0
       /\ promises[p].state # "rejected"
       /\ ~IsPromise(v) => promises[p].state = "fulfilled" /\ promises[p].value = v

\* Against the empty map, a pure Effect of a plain value is fulfilled with
\* it and a pure Effect of a promise that was rejected is rejected alike.
PureResolvesWitness ==
  /\ Finished
  /\ \E i, j \in Activations("pure") :
       /\ log[i][5] = 4 /\ log[j][5] = 4
       /\ effects[log[i][4]][2] = Atom(42) /\ promises[log[i][6]].value = Atom(42)
       /\ IsPromise(effects[log[j][4]][2])
       /\ promises[log[j][6]].state = "rejected"
       /\ promises[log[j][6]].value = Err(3)

\* C24: every call of the closure of fromPromise(factory), at top level or
\* inside a composite and against any map, invokes factory exactly once,
\* at once and without any argument (so without the map), and answers with
\* a promise that settles exactly as the promise factory returned: it is
\* fulfilled with its value or rejected with its error, and not before
\* it; a factory that throws instead of returning makes it rejected with
\* what was thrown.
FromPromiseAdopts ==
  \A i \in Activations("fromPromise") :
    LET factory == effects[log[i][4]][2]
        p == log[i][6]
    IN /\ p # 0
       /\ StepsBy(p) = {i + 1}
       /\ log[i + 1][4] = factory[1] /\ log[i + 1][5] = factory[2]
       /\ log[i + 1][6] = None
       /\ IF factory[1] = "throw"
            THEN promises[p].state = "rejected" /\ promises[p].value = Err(factory[2])
            ELSE SettlesAs(p, p + 1)

\* Two fromPromise Effects were started inside composites: the promise of
\* one factory was fulfilled and that of the other was rejected on a timer,
\* and each closure's promise ended as its factory's.
FromPromiseAdoptsWitness ==
  /\ Finished
  /\ \E i, j \in Activations("fromPromise") :
       /\ log[i][3] # 0 /\ log[j][3] # 0
       /\ promises[log[i][6]].state = "fulfilled"
       /\ promises[log[i][6]].value = promises[log[i][6] + 1].value
       /\ effects[log[j][4]][2][1] = "slowfail"
       /\ promises[log[j][6]].state = "rejected"
       /\ promises[log[j][6]].value = promises[log[j][6] + 1].value

----------------------------------------------------------------------------
(* The accessors of creators.ts *)

IsAccessor == script \in AccessorPrograms
IsWithDeps == script \in WithDepsPrograms
Context == IF Len(script) = 6 THEN "self" ELSE script[4][1]

\* The calls of the accessor's callback fn (the second Effect of a
\* composite has a callback of its own), and what the map of the run
\* holds for the accessor's key.
FnCalls(r) ==
  {j \in Events("step") : log[j][2] = r /\ <<log[j][4], log[j][5]>> = script[1][2]}
Entry(m, key) == IF key \in DOMAIN maps[m] THEN maps[m][key] ELSE Undefined

\* The Effect an accessor builds is the Effect withSingleDep builds for the
\* accessor's key, around fn itself or, for withLogger, around an async
\* wrapper of fn.
Delegates ==
  (IsAccessor /\ Len(env) >= 2) =>
    /\ script[1][1] # "withLogger" => effects[env[1][2]] = effects[env[2][2]]
    /\ script[1][1] = "withLogger" =>
         effects[env[1][2]] = <<"withSingleDep", "logger", <<"async", script[1][2]>>>>

\* Every run invokes fn exactly once, when it starts, with the entry of its
\* map for the accessor's key, or with the whole map for withDeps.
HandedEntry ==
  (IsAccessor \/ IsWithDeps) =>
    \A r \in 1..Len(runs) :
      /\ Cardinality(FnCalls(r)) = 1
      /\ \A j \in FnCalls(r) :
           log[j][6] = IF IsWithDeps THEN MapRef(runs[r].deps)
                       ELSE Entry(runs[r].deps, AccessorKey(script[1][1]))

\* The run of the accessor's Effect and the run of the core constructor's
\* Effect invoke the same callbacks with the same arguments and end alike.
RunsAgree ==
  Finished => Outcome(1) = Outcome(2) /\ CallbacksOf(1) = CallbacksOf(2)

\* withLogger(fn) in a race: fn is invoked with the logger all the same,
\* but the wrapper's promise settles later than fn's, so another member
\* may win the race that would lose it to withSingleDep('logger', fn).
LaterInRace == IsAccessor /\ script[1][1] = "withLogger" /\ Context = "race"

----------------------------------------------------------------------------
(* The default dependency map *)

Returned_(c) == depCalls[c].at = "returned"
ClientsOf(kind) == {i \in DOMAIN clients : clients[i].kind = kind}

\* C27: all calls of getDefaultDep that have returned resolved to one and
\* the same frozen map, and at most one database client and at most one
\* cache client were ever created, however the calls overlap.
DefaultDepOnce ==
  /\ \A c1, c2 \in DOMAIN depCalls :
       (Returned_(c1) /\ Returned_(c2)) => depCalls[c1].result = depCalls[c2].result
  /\ \A c \in DOMAIN depCalls : Returned_(c) => depCalls[c].result[1] = "frozen"
  /\ Cardinality(ClientsOf("db")) <= 1
  /\ Cardinality(ClientsOf("cache")) <= 1

\* As long as no call after the first has found defaultDependencies unset
\* (as a call does while an earlier call is at its await, or after an
\* earlier call failed), the first call alone creates clients and every
\* call resolves to its map.
FoundUnset == \E c \in DOMAIN depCalls : c > 1 /\ depCalls[c].db # 0
DefaultDepOnceInTurn == ~FoundUnset => DefaultDepOnce

----------------------------------------------------------------------------
(* The store *)

Latest(S) == CHOOSE x \in S : \A y \in S : y <= x

\* Whether listener l is registered when the call noted at place j is made:
\* it was subscribed before and, since it was last subscribed, no function
\* that unsubscribes it has been called.
Registered(l, j) ==
  LET acts == {i \in 1..(j - 1) :
                 /\ notes[i][1] \in {"subscribe", "subscribeState", "unsubscribe"}
                 /\ notes[i][2] = l}
  IN acts # {} /\ notes[Latest(acts)][1] # "unsubscribe"

\* The invocations of listener function l by the k-th _setState, and the
\* call during which the note at place i was written
Invocations(l, k) ==
  {i \in DOMAIN notes : notes[i][1] = "listener" /\ notes[i][2] = l /\ notes[i][3] = k}
CallOf(i) == Latest({j \in StoreCalls : j <= i})

StateAt(j) ==
  LET prior == {i \in SetStateCalls : i < j}
  IN IF prior = {} THEN config.initialState ELSE notes[Latest(prior)][5]

\* The subscribeState calls, the notifications of closure c by the k-th
\* _setState, and the value closure c observed last before place j: the
\* new value of its latest notification, or the selected value at its
\* subscription
Subscriptions == {s \in DOMAIN notes : notes[s][1] = "subscribeState"}
Notifications(c, k) ==
  {i \in DOMAIN notes : notes[i][1] = "selected" /\ notes[i][2] = c /\ notes[i][3] = k}
LastObserved(s, j) ==
  LET c == notes[s][2][2]
      seen == {i \in 1..(j - 1) : notes[i][1] = "selected" /\ notes[i][2] = c}
  IN IF seen = {} THEN Select(notes[s][3], StateAt(s)) ELSE notes[Latest(seen)][4]

\* The keys of the state a selector reads
Reads(selector) == IF selector = "name" THEN {"name"} ELSE {"count"}

ComputedFresh ==
  \A name \in config.computed : GetProp(computed, name) = ComputedFn(name, state)
----------------------------------------------------------------------------
(* The built stores: what their history says.                              *)

\* The listeners subscribed to store s before position i of the trail
SubscribedTo(s, i) ==
  {trail[j][3] : j \in {j \in 1..(i - 1) : trail[j][1] = "subscribe" /\ trail[j][2] = s}}

\* The listeners invoked by the call at position i: the listener events up
\* to the next call
InvokedBy(i) ==
  {trail[j][2] : j \in {j \in (i + 1)..Len(trail) :
                          /\ trail[j][1] = "listener"
                          /\ \A c \in (i + 1)..j : trail[c][1] = "listener"}}

\* C31: for a store built with actions({name: def}), every call
\* store.actions.name(args) returns, leaves as the state the state before
\* the call merged with the partial of def(args) (of def(args)(state) when
\* that is a function), and invokes the subscribed listeners.
ActionsUpdate ==
  \A i \in DOMAIN trail :
    trail[i][1] = "action" =>
      LET s == trail[i][2]
          before == heap[trail[i][6]]
          after == heap[trail[i][7]]
      IN /\ trail[i][5] = "returned"
         /\ after = Merge(before, ActionPartial(trail[i][3], trail[i][4], before))
         /\ SubscribedTo(s, i) \subseteq InvokedBy(i)
----------------------------------------------------------------------------
(* The singleton helper: what its history says.                            *)

Gets == {i \in DOMAIN made : made[i][1] = "getSingletonStore"}

\* A call or a creation that returned an instance
GaveInstance(i) == made[i][3][1] = "instance"

\* The key was cleaned up between positions i and j of the history
CleanedBetween(key, i, j) ==
  \E c \in i..j : made[c][1] = "cleanup" /\ key \in made[c][2]

\* In a client environment the calls with one key that return, return the
\* same instance unless the key was cleaned up in between.
SameInstance ==
  \A i, j \in Gets :
    /\ i < j /\ made[i][2] = made[j][2] /\ GaveInstance(i) /\ GaveInstance(j)
    /\ ~CleanedBetween(made[i][2], i, j)
    => made[i][3] = made[j][3]

\* In a server environment every call invokes createInstanceFn, and a call
\* that returns, returns what that invocation returned: an instance that no
\* earlier call returned.
FreshInstance ==
  \A j \in Gets :
    /\ j - 1 \in Creations /\ made[j - 1][2] = made[j][2] /\ made[j - 1][3] = made[j][3]
    /\ \A i \in Gets : i < j /\ GaveInstance(j) => made[i][3] # made[j][3]

----------------------------------------------------------------------------
(* The test cache: what its history says.                                  *)

\* The keys a del was given
Named(arg) == {KeyList(arg)[i] : i \in DOMAIN KeyList(arg)}

\* The sets of the key before position j, and the calls before j that took
\* the key out: a del that named it, a disconnect or a quit
SetsOf(key, j) == {i \in 1..(j - 1) : replies[i][1] = "set" /\ replies[i][2] = key}
TakenOut(key, j) ==
  {i \in 1..(j - 1) : \/ replies[i][1] \in {"disconnect", "quit"}
                      \/ replies[i][1] = "del" /\ key \in Named(replies[i][2])}

\* C33: every set returns 'OK'; a get of a key returns the value of the
\* latest set of that key when that set gave no expiry and the key was not
\* taken out since; a get of a key that was never set, or was taken out
\* after its latest set, returns null.
ReadYourWrites ==
  /\ \A i \in DOMAIN replies : replies[i][1] = "set" => replies[i][5] = "OK"
  /\ \A j \in DOMAIN replies :
       replies[j][1] = "get" =>
         LET key == replies[j][2]
             S == SetsOf(key, j)
             R == TakenOut(key, j)
         IN IF S = {} \/ (R # {} /\ Latest(R) > Latest(S))
            THEN replies[j][3] = Null
            ELSE replies[Latest(S)][4] = Undefined
                 => replies[j][3] = <<"string", replies[Latest(S)][3]>>

\* A key was set twice, with different values and no expiry, and the get
\* after them returned the second value.
ReadYourWritesWitness ==
  \E j \in DOMAIN replies :
    /\ replies[j][1] = "get"
    /\ \E i1, i2 \in SetsOf(replies[j][2], j) :
         /\ i1 < i2 /\ i2 = Latest(SetsOf(replies[j][2], j))
         /\ replies[i1][3] # replies[i2][3] /\ replies[i2][4] = Undefined
         /\ replies[j][3] = <<"string", replies[i2][3]>>

\* The step is a call of del
IsDel == Len(replies') = Len(replies) + 1 /\ replies'[Len(replies')][1] = "del"

\* C34: del takes out of the cache exactly the keys it was given that were
\* in it, returns how many those are, and leaves every other entry as it
\* was.
DelExact ==
  [][IsDel =>
       LET named == Named(replies'[Len(replies')][2])
       IN /\ DOMAIN store' = DOMAIN store \ named
          /\ \A k \in DOMAIN store' : store'[k] = store[k]
          /\ replies'[Len(replies')][3] = Cardinality(named \cap DOMAIN store)]_vars

\* Two keys were set, a del of one of them returned 1, and the cache holds
\* the other with the value it was set to.
DelExactWitness ==
  /\ Len(replies) = 3
  /\ replies[1][1] = "set" /\ replies[2][1] = "set" /\ replies[1][2] # replies[2][2]
  /\ replies[3] = <<"del", <<"string", replies[1][2]>>, 1>>
  /\ DOMAIN store = {replies[2][2]}
  /\ store[replies[2][2]].value = replies[2][3]
----------------------------------------------------------------------------
(* Aggregates: the start of the members.                                   *)

\* The aggregate called at place i of the history has called run on every
\* member, once, in list order, with its own map.  The call of the
\* aggregate is one step, so this holds from the state that follows it,
\* before any job of the aggregate has run.
MembersStarted(i) ==
  LET effs == effects[log[i][4]][2]
      ms == MemberStarts(i)
  IN /\ Len(ms) = Len(effs)
     /\ \A j \in 1..Len(ms) : log[ms[j]][4] = effs[j] /\ log[ms[j]][5] = log[i][5]

\* C35: on run(m), all and race call run(m) once on every member of their
\* list before they wait for any of them, whatever the other members do,
\* a member that fails at its start included.
AllMembersStarted ==
  \A i \in Activations("all") \cup Activations("race") : MembersStarted(i)

\* The members of the all called at place i whose promise is rejected
Rejected(i) ==
  {j \in StartsBy(log[i][6]) : log[j][6] # 0 /\ promises[log[j][6]].state = "rejected"}

\* The promise of the all called at place i is settled for good
AllSettledForGood(i) ==
  promises[log[i][6]].state # "pending" =>
    /\ promises'[log[i][6]].state = promises[log[i][6]].state
    /\ promises'[log[i][6]].value = promises[log[i][6]].value

\* When more than one member of an all is rejected, the promise of the all
\* is not fulfilled, it is rejected once the jobs are done, with the error
\* of the member that was rejected first in time, and every rejected
\* member's promise is handled: no rejection is left to be reported as
\* unhandled.
FirstRejection(i) ==
  Cardinality(Rejected(i)) > 1 =>
    /\ promises[log[i][6]].state # "fulfilled"
    /\ microtasks = <<>> =>
         /\ promises[log[i][6]].state = "rejected"
         /\ promises[log[i][6]].value = What(First(Rejected(i)))
    /\ \A j \in Rejected(i) : promises[log[j][6]].handled

\* C36: when more than one member of all rejects, the aggregate rejects
\* with the error of the member rejected first in time, whatever its place
\* in the list, and the later rejections neither change that outcome nor
\* surface anywhere else.
AllFirstRejection ==
  /\ [](\A i \in Activations("all") : FirstRejection(i))
  /\ [][\A i \in Activations("all") : AllSettledForGood(i)]_vars

\* The calls of an all, race or sequence that was built from the empty list
EmptyActivations ==
  {i \in Activations("all") \cup Activations("race") \cup Activations("sequence") :
     effects[log[i][4]][2] = <<>>}

\* C37: the run of all([]) and of sequence([]) is fulfilled with the empty
\* list, at the latest when the jobs are done, the run of race([]) is
\* pending for ever, and none of them starts an Effect or invokes a
\* callback.
EmptyAggregates ==
  \A i \in EmptyActivations :
    LET P == log[i][6]
    IN /\ StartsBy(P) = {}
       /\ \A j \in DOMAIN log : log[j][1] \in {"step", "fn", "cont"} => log[j][3] # P
       /\ IF effects[log[i][4]][1] = "race"
          THEN promises[P].state = "pending"
          ELSE /\ promises[P].state # "rejected"
               /\ promises[P].state = "fulfilled" => promises[P].value = List(<<>>)
               /\ microtasks = <<>> => promises[P].state = "fulfilled"

\* The caller has awaited the run of all([]) and got the empty list.
EmptyAggregatesWitness ==
  /\ Finished
  /\ \E i \in EmptyActivations :
       /\ effects[log[i][4]][1] = "all"
       /\ promises[log[i][6]].state = "fulfilled"
       /\ env[Len(env)] = List(<<>>)

\* The run of race([]) is pending when nothing is left to do.
EmptyRacePending ==
  /\ Quiescent
  /\ \E i \in EmptyActivations :
       effects[log[i][4]][1] = "race" /\ promises[log[i][6]].state = "pending"
----------------------------------------------------------------------------
(* The functor laws of transform.                                          *)

IsFunctorIdentity == script \in FunctorIdentityPrograms
IsFunctorComposition == script \in FunctorCompositionPrograms

\* Both runs of a composition program end alike and invoke the same
\* callbacks with the same arguments in the same order: the steps of e,
\* then f, then g on the result of f, as x => g(f(x)) does.
FunctorComposition ==
  /\ Outcome(1) = Outcome(2)
  /\ CallbacksOf(1) = CallbacksOf(2)

\* C38: e.transform(x => x).run(m) ends as e.run(m) does, and
\* e.transform(f).transform(g).run(m) ends as e.transform(x => g(f(x))).run(m)
\* does, with f applied before g.
FunctorLaws ==
  /\ (IsFunctorIdentity /\ Finished) => Outcome(2) = Outcome(1)
  /\ (IsFunctorComposition /\ Finished) => FunctorComposition

\* The identity law does hold when e.run(m) answered with a promise; the
\* composition law holds as stated.
FunctorLawsOfPromises ==
  /\ (IsFunctorIdentity /\ Finished /\ ~runs[1].threw) => Outcome(2) = Outcome(1)
  /\ (IsFunctorComposition /\ Finished) => FunctorComposition
----------------------------------------------------------------------------
(* The built stores: updates and isolation.                                *)

\* The step is a call of _setState, recorded at the next place of the trail
IsSetState == Len(trail') > Len(trail) /\ trail'[Len(trail) + 1][1] = "setState"

\* The _setState events on store s in the trail
SetStatesOn(s) == {i \in TrailSetStates : trail[i][3] = s}

\* C39: _setState(partial) changes the keys of the partial and no other:
\* afterwards the getter of every key gives the value of the partial, or
\* for a key the partial leaves out the value it gave before, getState()
\* gives the same values, and every state object that existed before the
\* call is as it was.
ShallowMerge ==
  [][IsSetState =>
       LET s == trail'[Len(trail) + 1][3]
           partial == trail'[Len(trail) + 1][4]
           after == heap'[stores'[s].state]
       IN /\ DOMAIN after = DOMAIN getState(s)
          /\ \A key \in DOMAIN getState(s) :
               after[key] = IF partial[key] = Keep THEN Getter(s, key) ELSE partial[key][2]
          /\ \A ref \in DOMAIN heap : heap'[ref] = heap[ref]]_vars

\* A store was given { count: 1 } and then { name: 'updated' }: it holds
\* both, and the initial state object is as it was.
ShallowMergeWitness ==
  \E s \in DOMAIN stores :
    \E i, j \in SetStatesOn(s) :
      /\ i < j
      /\ trail[i][4] = [count |-> Put(1), name |-> Keep]
      /\ trail[j][4] = [count |-> Keep, name |-> Put("updated")]
      /\ j = Latest(SetStatesOn(s))
      /\ getState(s) = [count |-> 1, name |-> "updated"]
      /\ Getter(s, "count") = 1 /\ Getter(s, "name") = "updated"
      /\ heap[stores[s].config.initialState] = [count |-> 0, name |-> "counter"]

\* A builder call leaves every builder as it was and returns a new one.
BuildersKept ==
  /\ \A b \in DOMAIN builders : b \in DOMAIN builders' /\ builders'[b] = builders[b]
  /\ builders' # builders => Len(builders') = Len(builders) + 1

\* A _setState on one store leaves what getState gives on every other store
\* as it was, and invokes the listeners subscribed to that store and no
\* other.
StoresApart ==
  IsSetState =>
    LET at == Len(trail) + 1
        s == trail'[at][3]
    IN /\ \A t \in DOMAIN stores \ {s} : heap'[stores'[t].state] = getState(t)
       /\ \A j \in (at + 1)..Len(trail') : trail'[j][1] = "listener"
       /\ {trail'[j][2] : j \in (at + 1)..Len(trail')} = SubscribedTo(s, at)

\* C40: computed, actions and asyncActions return a new builder and leave
\* the one they are called on as it was, and the stores built, also those
\* built from one builder, share neither state nor listeners.
BuildersAndStoresApart == [][BuildersKept /\ StoresApart]_vars

\* Two stores were built from the same builder, a builder that a call on
\* the first one returned; each has a listener of its own; a _setState on
\* the first changed its count and invoked its listener only.
BuildersAndStoresApartWitness ==
  /\ Len(builders) >= 2 /\ builders[1] = InitialBuilder(1)
  /\ Len(stores) = 2 /\ stores[1].builder = stores[2].builder /\ stores[1].builder > 1
  /\ SubscribedTo(1, Len(trail) + 1) = {Fn(1)} /\ SubscribedTo(2, Len(trail) + 1) = {Fn(2)}
  /\ \E i \in SetStatesOn(1) :
       /\ SubscribedTo(1, i) = {Fn(1)} /\ SubscribedTo(2, i) = {Fn(2)}
       /\ InvokedBy(i) = {Fn(1)}
  /\ SetStatesOn(2) = {}
  /\ getState(1).count = 1 /\ getState(2).count = 0
====
